---- MODULE Spec2Model ----
(***************************************************************************)
(* The deviation-scan-and-alert loop of the price screeners:               *)
(*   price_screener_binance.py  (script "binance")                         *)
(*   price_screener_rwa.py      (script "rwa")                             *)
(*   price_screener.py          (script "rest")                            *)
(*   price_screener_ws.py       (script "ws")                              *)
(* Each script is a program of its own; `script` says which one runs.      *)
(*                                                                         *)
(* Numbers.  Prices are integers.  A deviation is a fixed-point percentage *)
(* with two decimals (50 is 0.50 %, 3000 is 30 %); the reference prices of *)
(* the feeds are chosen so that the division of calculate_deviation is     *)
(* exact.  Times are seconds of the event loop clock (loop.time()).        *)
(* A Telegram message is stamped with the current_time of the send_alert   *)
(* call that hands it to bot.send_message.                                 *)
(***************************************************************************)
EXTENDS Integers, Sequences, FiniteSets, TLC

VARIABLES
    script,              \* which script runs: "binance", "rwa", "rest", "ws"
    bot,                 \* self.bot is not None (Telegram credentials configured)
    now,                 \* asyncio.get_event_loop().time()
    pc,                  \* position of run(): "scan" (about to scan), "send" (in the send loop)
    scans,               \* iterations of the `while True` loop of run() started so far
    binance_prices,      \* self.binance_prices of the Binance screener
    alerts,              \* the local list `alerts` of scan_all_markets, not yet sent
    last_alert,          \* self.last_alert
    consecutive_alerts,  \* self.consecutive_alerts
    blacklisted,         \* self.blacklisted
    created,             \* coroutines scheduled on the event loop that have not run yet
    tasks,               \* send_alert coroutines suspended at `await self.bot.send_message`
    updates,             \* order book updates the WebSocket client has delivered so far
    chat,                \* the operator's Telegram chat: key -> stamp of the latest delivered price alert
    log,                 \* what the last step logged and handed to Telegram
    probe                \* the last call of a deviation check on its own, with its result

vars == <<script, bot, now, pc, scans, binance_prices, alerts,
          last_alert, consecutive_alerts, blacklisted,
          created, tasks, updates, chat, log, probe>>

tables == <<last_alert, consecutive_alerts, blacklisted>>

-----------------------------------------------------------------------------
(* Bounds of the model *)

MaxScans == 4
MaxUpdates == 3

-----------------------------------------------------------------------------
(* Program constants *)

alert_cooldown == 300
blacklist_duration == 86400
poll_interval == 60
Binance_deviation_threshold == 50
RWA_deviation_threshold == 50
rwa_threshold == 250
Rest_deviation_threshold == 500
Ws_deviation_threshold == 500
SanityBound == 3000
ConsecutiveLimit == 2

\* config.json: "symbol_blacklist" and "custom_thresholds" (a sample configuration)
SYMBOL_BLACKLIST == {"XXX"}
CUSTOM_THRESHOLDS == [s \in {"CCC"} |-> 1000]

-----------------------------------------------------------------------------
(* Python dicts, None and abs *)

EmptyDict == [x \in {} |-> 0]
Put(d, k, v) == [x \in (DOMAIN d) \cup {k} |-> IF x = k THEN v ELSE d[x]]
\* `del d[k]` leaving the entry in place
Del_keep(d, k) == d

Del(d, k) == [x \in (DOMAIN d) \ {k} |-> d[x]]
Get(d, k, dflt) == IF k \in DOMAIN d THEN d[k] ELSE dflt
Abs(x) == IF x < 0 THEN -x ELSE x

\* One line of the log, or one message handed to Telegram, about one key
E(ev, key) == [ev |-> ev, key |-> key]
NoKey == <<"-">>
Has(l, ev, key) == \E i \in 1..Len(l) : l[i] = E(ev, key)

-----------------------------------------------------------------------------
(* price_screener_binance.py *)

LT(symbol) == <<"LT", symbol>>
HL_BID(symbol) == <<"HL", symbol, "BID">>

\* both sides of a symbol tracked under one key
HL_ASK_shared(symbol) == HL_BID(symbol)

HL_ASK(symbol) == <<"HL", symbol, "ASK">>

get_binance_symbol(lighter_symbol) == <<lighter_symbol, "USDT">>

\* the sign dropped, as calculate_deviation of the other two scripts does
calculate_deviation_unsigned(price, reference) ==
    IF reference = 0 THEN 0
    ELSE Abs(((price - reference) * 10000) \div reference)

calculate_deviation(price, reference) ==
    IF reference = 0 THEN 0
    ELSE ((price - reference) * 10000) \div reference

\* the custom thresholds never consulted
Binance_threshold_default(symbol) == Binance_deviation_threshold

Binance_threshold(symbol) ==
    Get(CUSTOM_THRESHOLDS, symbol, Binance_deviation_threshold)

\* the sanity bound with the boundary on the wrong side
Binance_sanity_skip_inclusive(symbol, deviation) ==
    symbol \notin DOMAIN CUSTOM_THRESHOLDS /\ Abs(deviation) >= SanityBound

Binance_sanity_skip(symbol, deviation) ==
    symbol \notin DOMAIN CUSTOM_THRESHOLDS /\ Abs(deviation) > SanityBound

\* the threshold test strict
exceeds_threshold_strict(deviation, threshold) == Abs(deviation) > threshold

exceeds_threshold(deviation, threshold) == Abs(deviation) >= threshold

\* the static blacklist never consulted
symbol_excluded_never(symbol) == FALSE

symbol_excluded(symbol) == symbol \in SYMBOL_BLACKLIST

\* check_market: the candidates it returns, as a list of at most one key.
\* A price of 0 stands for a missing one (`if not price`).
Binance_check_market(prices, symbol, lighter_data, binance_symbol) ==
    IF symbol_excluded(symbol) THEN <<>>
    ELSE IF Get(prices, binance_symbol, 0) = 0 THEN <<>>
    ELSE IF lighter_data.last_trade_price = 0 THEN <<>>
    ELSE LET deviation == calculate_deviation(lighter_data.last_trade_price,
                                              prices[binance_symbol])
             threshold == Binance_threshold(symbol)
         IN IF Binance_sanity_skip(symbol, deviation) THEN <<>>
            ELSE IF exceeds_threshold(deviation, threshold) THEN <<LT(symbol)>>
            ELSE <<>>

\* the sanity bound applied to each side on its own
Binance_check_hyperliquid_market_per_side(prices, symbol, hl_data, binance_symbol) ==
    IF symbol_excluded(symbol) THEN <<>>
    ELSE IF Get(prices, binance_symbol, 0) = 0 THEN <<>>
    ELSE IF hl_data.best_bid = 0 \/ hl_data.best_ask = 0 THEN <<>>
    ELSE LET bid_deviation == calculate_deviation(hl_data.best_bid, prices[binance_symbol])
             ask_deviation == calculate_deviation(hl_data.best_ask, prices[binance_symbol])
             threshold == Binance_threshold(symbol)
         IN (IF exceeds_threshold(bid_deviation, threshold)
                /\ ~Binance_sanity_skip(symbol, bid_deviation)
                    THEN <<HL_BID(symbol)>> ELSE <<>>)
            \o (IF exceeds_threshold(ask_deviation, threshold)
                /\ ~Binance_sanity_skip(symbol, ask_deviation)
                    THEN <<HL_ASK(symbol)>> ELSE <<>>)

Binance_check_hyperliquid_market(prices, symbol, hl_data, binance_symbol) ==
    IF symbol_excluded(symbol) THEN <<>>
    ELSE IF Get(prices, binance_symbol, 0) = 0 THEN <<>>
    ELSE IF hl_data.best_bid = 0 \/ hl_data.best_ask = 0 THEN <<>>
    ELSE LET bid_deviation == calculate_deviation(hl_data.best_bid, prices[binance_symbol])
             ask_deviation == calculate_deviation(hl_data.best_ask, prices[binance_symbol])
             threshold == Binance_threshold(symbol)
         IN IF Binance_sanity_skip(symbol, bid_deviation)
               \/ Binance_sanity_skip(symbol, ask_deviation) THEN <<>>
            ELSE (IF exceeds_threshold(bid_deviation, threshold)
                    THEN <<HL_BID(symbol)>> ELSE <<>>)
                 \o (IF exceeds_threshold(ask_deviation, threshold)
                    THEN <<HL_ASK(symbol)>> ELSE <<>>)

\* the comparison of the elapsed time reversed
within_reversed(current_time, since, duration) == current_time - since > duration

\* `current_time - <a recorded time> < <a duration>`
within(current_time, since, duration) == current_time - since < duration

\* the expiry test with the boundary on the wrong side
blacklist_active_inclusive(current_time, since) ==
    current_time - since <= blacklist_duration

\* a blacklist entry in force for the cooldown only
blacklist_active_cooldown(current_time, since) ==
    current_time - since < alert_cooldown

\* a blacklist entry never in force
blacklist_active_never(current_time, since) == FALSE

blacklist_active(current_time, since) == within(current_time, since, blacklist_duration)
\* the cooldown test with the boundary on the wrong side
cooldown_active_inclusive(current_time, last) == current_time - last <= alert_cooldown

cooldown_active(current_time, last) == within(current_time, last, alert_cooldown)
\* the auto-blacklist only with a Telegram bot configured
limit_reached_with_bot(count) == bot /\ count >= ConsecutiveLimit

\* no auto-blacklist at all
limit_reached_never(count) == FALSE

\* the limit reached by the first alert already
limit_reached_first(count) == count >= 1

\* the limit test off by one
limit_reached_late(count) == count > ConsecutiveLimit
limit_reached(count) == count >= ConsecutiveLimit

\* What bot.send_message adds to the log and the chat: nothing without a bot
Telegram(kind, key, ok) ==
    IF bot THEN <<E(IF ok THEN kind \o "_sent" ELSE kind \o "_failed", key)>> ELSE <<>>

\* send_alert of the Binance screener; `ok`: the one bot.send_message it may
\* await succeeds (otherwise it raises TelegramError)
Binance_send_alert(alert_key, ok) ==
    LET current_time == now
        listed == alert_key \in DOMAIN blacklisted
        active == listed /\ blacklist_active(current_time, blacklisted[alert_key])
        expired == listed /\ ~active
        bl1 == IF expired THEN Del(blacklisted, alert_key) ELSE blacklisted
        ca1 == IF expired THEN Put(consecutive_alerts, alert_key, 0)
                          ELSE consecutive_alerts
        ca2 == Put(ca1, alert_key, Get(ca1, alert_key, 0) + 1)
        head == (IF expired THEN <<E("blacklist_expired", alert_key)>> ELSE <<>>)
                \o <<E("ALERT", alert_key)>>
    IN  IF active
        THEN /\ log' = <<E("still_blacklisted", alert_key)>>
             /\ UNCHANGED <<last_alert, consecutive_alerts, blacklisted, chat>>
        ELSE IF limit_reached(ca2[alert_key])
        THEN /\ blacklisted' = Put(bl1, alert_key, current_time)
             /\ consecutive_alerts' = ca2
             /\ log' = head \o <<E("blacklisted_24h", alert_key)>>
                            \o Telegram("notice", alert_key, ok)
             /\ UNCHANGED <<last_alert, chat>>
        ELSE IF alert_key \in DOMAIN last_alert
                /\ cooldown_active(current_time, last_alert[alert_key])
        THEN /\ blacklisted' = bl1
             /\ consecutive_alerts' = ca2
             /\ log' = head \o <<E("cooldown", alert_key)>>
             /\ UNCHANGED <<last_alert, chat>>
        ELSE /\ blacklisted' = bl1
             /\ consecutive_alerts' = ca2
             /\ log' = head \o Telegram("price", alert_key, ok)
             /\ last_alert' = IF bot /\ ok THEN Put(last_alert, alert_key, current_time)
                                           ELSE last_alert
             /\ chat' = IF bot /\ ok THEN Put(chat, alert_key, current_time) ELSE chat


\* the order in which the dict of a feed is iterated
SymbolOrder == <<"AAA", "CCC", "XXX", "XAU", "GOLD">>

\* the debug lines "Skipping <symbol>: in blacklist" of a scan
RECURSIVE Binance_skipped(_, _)
Binance_skipped(quoted, i) ==
    IF i > Len(SymbolOrder) THEN <<>>
    ELSE (IF SymbolOrder[i] \in quoted /\ symbol_excluded(SymbolOrder[i])
          THEN <<E("in_blacklist", <<SymbolOrder[i]>>)>> ELSE <<>>)
         \o Binance_skipped(quoted, i + 1)

RECURSIVE Binance_lighter_loop(_, _, _)
Binance_lighter_loop(prices, lighter_prices, i) ==
    IF i > Len(SymbolOrder) THEN <<>>
    ELSE LET symbol == SymbolOrder[i]
             binance_symbol == get_binance_symbol(symbol)
         IN (IF symbol \in DOMAIN lighter_prices /\ binance_symbol \in DOMAIN prices
             THEN Binance_check_market(prices, symbol, lighter_prices[symbol],
                                       binance_symbol)
             ELSE <<>>)
            \o Binance_lighter_loop(prices, lighter_prices, i + 1)

RECURSIVE Binance_hyperliquid_loop(_, _, _)
Binance_hyperliquid_loop(prices, hyperliquid_prices, i) ==
    IF i > Len(SymbolOrder) THEN <<>>
    ELSE LET symbol == SymbolOrder[i]
             binance_symbol == get_binance_symbol(symbol)
         IN (IF symbol \in DOMAIN hyperliquid_prices /\ binance_symbol \in DOMAIN prices
             THEN Binance_check_hyperliquid_market(prices, symbol,
                      hyperliquid_prices[symbol], binance_symbol)
             ELSE <<>>)
            \o Binance_hyperliquid_loop(prices, hyperliquid_prices, i + 1)

\* scan_all_markets up to its send loop
Binance_scan_all_markets(prices, lighter_prices, hyperliquid_prices) ==
    /\ script = "binance" /\ pc = "scan" /\ scans < MaxScans
    /\ scans' = scans + 1
    /\ binance_prices' = prices
    /\ pc' = "send"
    /\ IF prices = EmptyDict
       THEN alerts' = <<>> /\ log' = <<E("no_reference_prices", NoKey)>>
       ELSE IF lighter_prices = EmptyDict /\ hyperliquid_prices = EmptyDict
       THEN alerts' = <<>> /\ log' = <<E("no_exchange_prices", NoKey)>>
       ELSE /\ alerts' = Binance_lighter_loop(prices, lighter_prices, 1)
                         \o Binance_hyperliquid_loop(prices, hyperliquid_prices, 1)
            /\ log' = <<E("scanning", NoKey)>>
                      \o Binance_skipped(DOMAIN lighter_prices, 1)
                      \o Binance_skipped(DOMAIN hyperliquid_prices, 1)
    /\ UNCHANGED <<script, bot, now, last_alert, consecutive_alerts, blacklisted,
                   created, tasks, updates, chat, probe>>

\* a failed delivery ending the send loop: the later candidates are dropped
Binance_send_aborting(ok) ==
    /\ script = "binance" /\ pc = "send" /\ alerts # <<>>
    /\ Binance_send_alert(Head(alerts), ok)
    /\ alerts' = IF bot /\ ~ok THEN <<>> ELSE Tail(alerts)
    /\ UNCHANGED <<script, bot, now, pc, scans, binance_prices,
                   created, tasks, updates, probe>>

\* one turn of `for symbol, message in alerts: await self.send_alert(symbol, message)`
Binance_send(ok) ==
    /\ script = "binance" /\ pc = "send" /\ alerts # <<>>
    /\ Binance_send_alert(Head(alerts), ok)
    /\ alerts' = Tail(alerts)
    /\ UNCHANGED <<script, bot, now, pc, scans, binance_prices,
                   created, tasks, updates, probe>>

-----------------------------------------------------------------------------
(* price_screener_rwa.py *)

\* calculate_deviation of price_screener_rwa.py
RWA_calculate_deviation(price, oracle_price) ==
    IF oracle_price = 0 THEN 0
    ELSE ((price - oracle_price) * 10000) \div oracle_price

HL_XYZ_BID(symbol) == <<"HL-xyz", symbol, "BID">>
HL_XYZ_ASK(symbol) == <<"HL-xyz", symbol, "ASK">>

\* the reset creating the counter of a key that has none
reset_consecutive_create(counts, key) == Put(counts, key, 0)

\* no reset at all
reset_consecutive_never(counts, key) == counts

\* the reset clearing every counter instead of the one of the key
reset_consecutive_all(counts, key) ==
    IF key \in DOMAIN counts THEN [k \in DOMAIN counts |-> 0] ELSE counts

\* `if key in self.consecutive_alerts: self.consecutive_alerts[key] = 0`
reset_consecutive(counts, key) ==
    IF key \in DOMAIN counts THEN Put(counts, key, 0) ELSE counts

\* check_lighter_market: its candidates and self.consecutive_alerts as it leaves it
RWA_check_lighter_market(counts, symbol, lighter_data, oracle_price) ==
    IF lighter_data.last_trade_price = 0
    THEN [result |-> <<>>, consecutive_alerts |-> counts]
    ELSE LET deviation == RWA_calculate_deviation(lighter_data.last_trade_price,
                                                  oracle_price)
             market_key == LT(symbol)
         IN IF exceeds_threshold(deviation, RWA_deviation_threshold)
            THEN [result |-> <<market_key>>, consecutive_alerts |-> counts]
            ELSE [result |-> <<>>,
                  consecutive_alerts |-> reset_consecutive(counts, market_key)]

\* check_hyperliquid_xyz_market, likewise
RWA_check_hyperliquid_xyz_market(counts, symbol, hl_data) ==
    IF hl_data.oracle_price = 0 \/ hl_data.best_bid = 0 \/ hl_data.best_ask = 0
    THEN [result |-> <<>>, consecutive_alerts |-> counts]
    ELSE LET bid_deviation == RWA_calculate_deviation(hl_data.best_bid,
                                                      hl_data.oracle_price)
             ask_deviation == RWA_calculate_deviation(hl_data.best_ask,
                                                      hl_data.oracle_price)
             bid_key == HL_XYZ_BID(symbol)
             ask_key == HL_XYZ_ASK(symbol)
             bid == exceeds_threshold(bid_deviation, rwa_threshold)
             ask == exceeds_threshold(ask_deviation, rwa_threshold)
             c1 == IF bid THEN counts ELSE reset_consecutive(counts, bid_key)
             c2 == IF ask THEN c1 ELSE reset_consecutive(c1, ask_key)
         IN [result |-> (IF bid THEN <<bid_key>> ELSE <<>>)
                        \o (IF ask THEN <<ask_key>> ELSE <<>>),
             consecutive_alerts |-> c2]

\* the auto-blacklist pipeline in the order of the Binance screener: count first,
\* and stop at the limit without sending the price alert
RWA_send_alert_count_first(market_key, ok1, ok2) == Binance_send_alert(market_key, ok1)

\* send_alert of the RWA screener; ok1: the price alert is delivered, ok2: the
\* auto-blacklist notice is (each bot.send_message otherwise raises TelegramError)
RWA_send_alert(market_key, ok1, ok2) ==
    LET current_time == now
        listed == market_key \in DOMAIN blacklisted
        active == listed /\ blacklist_active(current_time, blacklisted[market_key])
        expired == listed /\ ~active
        bl1 == IF expired THEN Del(blacklisted, market_key) ELSE blacklisted
        ca1 == IF expired THEN Put(consecutive_alerts, market_key, 0)
                          ELSE consecutive_alerts
        ca2 == Put(ca1, market_key, Get(ca1, market_key, 0) + 1)
        head == (IF expired THEN <<E("blacklist_expired", market_key)>> ELSE <<>>)
                \o <<E("ALERT", market_key)>>
    IN  IF active
        THEN /\ log' = <<E("still_blacklisted", market_key)>>
             /\ UNCHANGED <<last_alert, consecutive_alerts, blacklisted, chat>>
        ELSE IF market_key \in DOMAIN last_alert
                /\ cooldown_active(current_time, last_alert[market_key])
        THEN /\ blacklisted' = bl1
             /\ consecutive_alerts' = ca1
             /\ log' = head \o <<E("cooldown", market_key)>>
             /\ UNCHANGED <<last_alert, chat>>
        ELSE IF bot /\ ok1
        THEN /\ last_alert' = Put(last_alert, market_key, current_time)
             /\ chat' = Put(chat, market_key, current_time)
             /\ consecutive_alerts' = ca2
             /\ IF limit_reached(ca2[market_key])
                THEN /\ blacklisted' = Put(bl1, market_key, current_time)
                     /\ log' = head \o Telegram("price", market_key, TRUE)
                                    \o <<E("blacklisted_24h", market_key)>>
                                    \o Telegram("notice", market_key, ok2)
                ELSE /\ blacklisted' = bl1
                     /\ log' = head \o Telegram("price", market_key, TRUE)
        ELSE /\ blacklisted' = bl1
             /\ consecutive_alerts' = ca1
             /\ log' = head \o Telegram("price", market_key, FALSE)
             /\ UNCHANGED <<last_alert, chat>>

RECURSIVE RWA_lighter_loop(_, _, _, _)
RWA_lighter_loop(counts, pyth_prices, lighter_prices, i) ==
    IF i > Len(SymbolOrder) THEN [result |-> <<>>, consecutive_alerts |-> counts]
    ELSE LET symbol == SymbolOrder[i]
             this == IF symbol \in DOMAIN lighter_prices
                        /\ Get(pyth_prices, symbol, 0) # 0
                     THEN RWA_check_lighter_market(counts, symbol,
                              lighter_prices[symbol], pyth_prices[symbol])
                     ELSE [result |-> <<>>, consecutive_alerts |-> counts]
             rest == RWA_lighter_loop(this.consecutive_alerts, pyth_prices,
                                      lighter_prices, i + 1)
         IN [result |-> this.result \o rest.result,
             consecutive_alerts |-> rest.consecutive_alerts]

RECURSIVE RWA_hyperliquid_loop(_, _, _)
RWA_hyperliquid_loop(counts, hyperliquid_prices, i) ==
    IF i > Len(SymbolOrder) THEN [result |-> <<>>, consecutive_alerts |-> counts]
    ELSE LET symbol == SymbolOrder[i]
             this == IF symbol \in DOMAIN hyperliquid_prices
                     THEN RWA_check_hyperliquid_xyz_market(counts, symbol,
                              hyperliquid_prices[symbol])
                     ELSE [result |-> <<>>, consecutive_alerts |-> counts]
             rest == RWA_hyperliquid_loop(this.consecutive_alerts,
                                          hyperliquid_prices, i + 1)
         IN [result |-> this.result \o rest.result,
             consecutive_alerts |-> rest.consecutive_alerts]

\* the scan going on without Pyth prices: only the checks that need them are
\* skipped
RWA_scan_all_markets_unguarded(pyth_prices, lighter_prices, hyperliquid_prices) ==
    /\ script = "rwa" /\ pc = "scan" /\ scans < MaxScans
    /\ scans' = scans + 1
    /\ pc' = "send"
    /\ IF lighter_prices = EmptyDict /\ hyperliquid_prices = EmptyDict
       THEN /\ alerts' = <<>> /\ log' = <<E("no_exchange_prices", NoKey)>>
            /\ UNCHANGED consecutive_alerts
       ELSE LET lt == RWA_lighter_loop(consecutive_alerts, pyth_prices, lighter_prices, 1)
                hl == RWA_hyperliquid_loop(lt.consecutive_alerts, hyperliquid_prices, 1)
            IN /\ alerts' = lt.result \o hl.result
               /\ consecutive_alerts' = hl.consecutive_alerts
               /\ log' = <<E("scanning", NoKey)>>
    /\ UNCHANGED <<script, bot, now, binance_prices, last_alert, blacklisted,
                   created, tasks, updates, chat, probe>>

\* scan_all_markets up to its send loop
RWA_scan_all_markets(pyth_prices, lighter_prices, hyperliquid_prices) ==
    /\ script = "rwa" /\ pc = "scan" /\ scans < MaxScans
    /\ scans' = scans + 1
    /\ pc' = "send"
    /\ IF pyth_prices = EmptyDict
       THEN /\ alerts' = <<>> /\ log' = <<E("no_reference_prices", NoKey)>>
            /\ UNCHANGED consecutive_alerts
       ELSE IF lighter_prices = EmptyDict /\ hyperliquid_prices = EmptyDict
       THEN /\ alerts' = <<>> /\ log' = <<E("no_exchange_prices", NoKey)>>
            /\ UNCHANGED consecutive_alerts
       ELSE LET lt == RWA_lighter_loop(consecutive_alerts, pyth_prices, lighter_prices, 1)
                hl == RWA_hyperliquid_loop(lt.consecutive_alerts, hyperliquid_prices, 1)
            IN /\ alerts' = lt.result \o hl.result
               /\ consecutive_alerts' = hl.consecutive_alerts
               /\ log' = <<E("scanning", NoKey)>>
    /\ UNCHANGED <<script, bot, now, binance_prices, last_alert, blacklisted,
                   created, tasks, updates, chat, probe>>

RWA_send(ok1, ok2) ==
    /\ script = "rwa" /\ pc = "send" /\ alerts # <<>>
    /\ RWA_send_alert(Head(alerts), ok1, ok2)
    /\ alerts' = Tail(alerts)
    /\ UNCHANGED <<script, bot, now, pc, scans, binance_prices,
                   created, tasks, updates, probe>>

-----------------------------------------------------------------------------
(* price_screener.py and price_screener_ws.py: one alert key per market *)

MarketKey(market_id) == <<"market", market_id>>

\* calculate_deviation of these two scripts returns the absolute value
Abs_calculate_deviation(last_price, mark_price) ==
    IF mark_price = 0 THEN 0
    ELSE Abs(((last_price - mark_price) * 10000) \div mark_price)

\* check_market of price_screener.py up to its call of send_alert: the candidate.
\* A last price of 0 is the "invalid price"; a mark price of -1 is `None`
\* (neither a mark price nor a best bid and ask in the market stats).
Rest_check_market(market_id, last_price, mark_price) ==
    IF last_price = 0 THEN <<>>
    ELSE IF mark_price = -1 THEN <<>>
    ELSE IF Abs_calculate_deviation(last_price, mark_price) >= Rest_deviation_threshold
         THEN <<MarketKey(market_id)>>
         ELSE <<>>

\* on_order_book_update up to asyncio.create_task: the candidate
Ws_on_order_book_update(market_id, order_book) ==
    IF order_book.mark_price = 0 \/ order_book.last_price = 0 THEN <<>>
    ELSE IF Abs_calculate_deviation(order_book.last_price, order_book.mark_price)
              >= Ws_deviation_threshold
         THEN <<MarketKey(market_id)>>
         ELSE <<>>

\* send_alert (the same text in both scripts) up to `await self.bot.send_message`:
\* the coroutine either returns or is suspended holding its current_time
send_alert_begin(market_key) ==
    LET current_time == now
    IN IF market_key \in DOMAIN last_alert
          /\ cooldown_active(current_time, last_alert[market_key])
       THEN /\ log' = <<E("ALERT", market_key), E("cooldown", market_key)>>
            /\ UNCHANGED tasks
       ELSE IF bot
       THEN /\ log' = <<E("ALERT", market_key), E("price_awaited", market_key)>>
            /\ tasks' = Append(tasks, [key |-> market_key, current_time |-> current_time])
       ELSE /\ log' = <<E("ALERT", market_key)>>
            /\ UNCHANGED tasks

RemoveAt(s, i) == SubSeq(s, 1, i - 1) \o SubSeq(s, i + 1, Len(s))

\* last_alert written whether or not the send succeeded
send_alert_end_optimistic(i, ok) ==
    LET task == tasks[i]
    IN /\ tasks' = RemoveAt(tasks, i)
       /\ log' = Telegram("price", task.key, ok)
       /\ last_alert' = Put(last_alert, task.key, task.current_time)
       /\ chat' = IF ok THEN Put(chat, task.key, task.current_time) ELSE chat

\* send_alert from the return of `await self.bot.send_message` on
send_alert_end(i, ok) ==
    LET task == tasks[i]
    IN /\ tasks' = RemoveAt(tasks, i)
       /\ log' = Telegram("price", task.key, ok)
       /\ last_alert' = IF ok THEN Put(last_alert, task.key, task.current_time)
                              ELSE last_alert
       /\ chat' = IF ok THEN Put(chat, task.key, task.current_time) ELSE chat

RestMarkets == <<"1", "2">>
RestLastPx == {10000, 10500}

\* scan_all_markets of price_screener.py: one check_market coroutine per market
Rest_scan_all_markets ==
    /\ script = "rest" /\ pc = "scan" /\ scans < MaxScans
    /\ scans' = scans + 1
    /\ pc' = "gather"
    /\ created' = RestMarkets
    /\ log' = <<E("scanning", NoKey)>>
    /\ UNCHANGED <<script, bot, now, binance_prices, alerts, last_alert,
                   consecutive_alerts, blacklisted, tasks, updates, chat, probe>>

\* one check_market coroutine runs until it returns or is suspended in send_alert
Rest_check(i, last_price, mark_price) ==
    /\ script = "rest" /\ pc = "gather" /\ i \in 1..Len(created)
    /\ created' = RemoveAt(created, i)
    /\ IF Rest_check_market(created[i], last_price, mark_price) # <<>>
       THEN send_alert_begin(MarketKey(created[i]))
       ELSE log' = <<>> /\ UNCHANGED tasks
    /\ UNCHANGED <<script, bot, now, pc, scans, binance_prices, alerts, last_alert,
                   consecutive_alerts, blacklisted, updates, chat, probe>>

Rest_send_done(i, ok) ==
    /\ script = "rest" /\ pc = "gather" /\ i \in 1..Len(tasks)
    /\ send_alert_end(i, ok)
    /\ UNCHANGED <<script, bot, now, pc, scans, binance_prices, alerts,
                   consecutive_alerts, blacklisted, created, updates, probe>>

\* run() of price_screener_ws.py up to ws_client.run()
Ws_run(market_ids) ==
    /\ script = "ws" /\ pc = "start"
    /\ pc' = IF market_ids = {} THEN "done" ELSE "stream"
    /\ log' = IF market_ids = {} THEN <<E("no_markets", NoKey)>> ELSE <<>>
    /\ UNCHANGED <<script, bot, now, scans, binance_prices, alerts, last_alert,
                   consecutive_alerts, blacklisted, created, tasks, updates, chat, probe>>

\* run() of price_screener_ws.py: ws_client.run() raises an Exception (the
\* connection drops, a frame cannot be parsed); run() logs it, closes the API
\* client and returns, and asyncio.run cancels the send_alert tasks still pending
Ws_stream_raises ==
    /\ script = "ws" /\ pc = "stream"
    /\ pc' = "done"
    /\ created' = <<>>
    /\ tasks' = <<>>
    /\ log' = <<E("ws_error", NoKey)>>
    /\ UNCHANGED <<script, bot, now, scans, binance_prices, alerts, last_alert,
                   consecutive_alerts, blacklisted, updates, chat, probe>>

WsMarkets == {1}
OrderBooks == {[mark_price |-> 10000, last_price |-> 10000],
               [mark_price |-> 10000, last_price |-> 10500]}
WsDelays == {0, 60, 300}

\* the WebSocket client delivers an order book update, d seconds after the last
\* one; an update over the threshold schedules a send_alert task
Ws_update(market_id, order_book, d) ==
    /\ script = "ws" /\ pc = "stream" /\ updates < MaxUpdates
    /\ updates' = updates + 1
    /\ now' = now + d
    /\ LET candidate == Ws_on_order_book_update(market_id, order_book)
       IN /\ created' = created \o candidate
          /\ log' = <<>>
    /\ UNCHANGED <<script, bot, pc, scans, binance_prices, alerts, last_alert,
                   consecutive_alerts, blacklisted, tasks, chat, probe>>

\* the event loop starts the oldest scheduled send_alert task
Ws_send_alert(market_key) ==
    /\ script = "ws" /\ pc = "stream" /\ created # <<>>
    /\ market_key = Head(created)
    /\ created' = Tail(created)
    /\ send_alert_begin(market_key)
    /\ UNCHANGED <<script, bot, now, pc, scans, binance_prices, alerts, last_alert,
                   consecutive_alerts, blacklisted, updates, chat, probe>>

Ws_send_done(i, ok) ==
    /\ script = "ws" /\ pc = "stream" /\ i \in 1..Len(tasks)
    /\ send_alert_end(i, ok)
    /\ UNCHANGED <<script, bot, now, pc, scans, binance_prices, alerts,
                   consecutive_alerts, blacklisted, created, updates, probe>>

-----------------------------------------------------------------------------
(* run(): the scan returns and the loop awaits asyncio.sleep(poll_interval),   *)
(* which returns no earlier than poll_interval later                           *)

Delays == {poll_interval, 300, 86400}

\* the loop going on to its sleep and its next scan while send_alert calls of
\* the scan are still waiting on Telegram
Sleep_early(d) ==
    /\ \/ script \in {"binance", "rwa"} /\ pc = "send" /\ alerts = <<>>
       \/ script = "rest" /\ pc = "gather" /\ created = <<>>
    /\ d >= poll_interval
    /\ now' = now + d
    /\ pc' = "scan"
    /\ log' = <<E("scan_complete", NoKey)>>
    /\ UNCHANGED <<script, bot, scans, binance_prices, alerts, last_alert,
                   consecutive_alerts, blacklisted, created, tasks, updates, chat, probe>>

Sleep(d) ==
    /\ \/ script \in {"binance", "rwa"} /\ pc = "send" /\ alerts = <<>>
       \/ script = "rest" /\ pc = "gather" /\ created = <<>> /\ tasks = <<>>
    /\ d >= poll_interval
    /\ now' = now + d
    /\ pc' = "scan"
    /\ log' = <<E("scan_complete", NoKey)>>
    /\ UNCHANGED <<script, bot, scans, binance_prices, alerts, last_alert,
                   consecutive_alerts, blacklisted, created, tasks, updates, chat, probe>>

\* the loop of run() ended by the exception of a scan
Scan_raises_fatal(d) ==
    /\ script \in {"binance", "rwa", "rest"}
    /\ \/ pc = "scan" /\ scans < MaxScans /\ scans' = scans + 1
       \/ script \in {"binance", "rwa"} /\ pc = "send" /\ alerts # <<>>
          /\ UNCHANGED scans
    /\ d >= poll_interval
    /\ UNCHANGED now
    /\ pc' = "done"
    /\ alerts' = <<>>
    /\ log' = <<E("scan_error", NoKey)>>
    /\ UNCHANGED <<script, bot, binance_prices, last_alert, consecutive_alerts,
                   blacklisted, created, tasks, updates, chat, probe>>

\* run(): `await self.scan_all_markets()` raises an Exception, as the scan
\* starts or between two send_alert calls of its send loop (the candidates not
\* yet sent are lost with the scan's frame); run() logs it and goes on to
\* asyncio.sleep(poll_interval)
Scan_raises(d) ==
    /\ script \in {"binance", "rwa", "rest"}
    /\ \/ pc = "scan" /\ scans < MaxScans /\ scans' = scans + 1
       \/ script \in {"binance", "rwa"} /\ pc = "send" /\ alerts # <<>>
          /\ UNCHANGED scans
    /\ d >= poll_interval
    /\ now' = now + d
    /\ pc' = "scan"
    /\ alerts' = <<>>
    /\ log' = <<E("scan_error", NoKey)>>
    /\ UNCHANGED <<script, bot, binance_prices, last_alert, consecutive_alerts,
                   blacklisted, created, tasks, updates, chat, probe>>

-----------------------------------------------------------------------------
(* The feeds a scan may fetch *)

RefPx == 100 * 100
Quotes(symbols, values) == UNION {[d -> values] : d \in SUBSET symbols}
Merge(f, g) == [x \in (DOMAIN f) \cup (DOMAIN g) |-> IF x \in DOMAIN f THEN f[x] ELSE g[x]]

BinanceFeeds == {EmptyDict,
                 [b \in {get_binance_symbol("AAA"), get_binance_symbol("XXX")} |-> RefPx]}
\* Lighter lists the excluded symbol; Hyperliquid lists it and AAA
BinanceLighterFeeds == Quotes({"XXX"}, {[last_trade_price |-> 10050]})
BinanceHyperliquidFeeds ==
    {Merge(f, g) :
        f \in Quotes({"AAA"}, {[best_bid |-> 10000, best_ask |-> 10000],
                               [best_bid |-> 9950, best_ask |-> 10000],
                               [best_bid |-> 10000, best_ask |-> 10050],
                               [best_bid |-> 9950, best_ask |-> 10050]}),
        g \in Quotes({"XXX"}, {[best_bid |-> 9950, best_ask |-> 10050]})}

PythFeeds == {EmptyDict, [s \in {"XAU"} |-> RefPx]}
RWALighterFeeds == Quotes({"XAU"}, {[last_trade_price |-> 10049],
                                    [last_trade_price |-> 10050]})
RWAHyperliquidFeeds ==
    Quotes({"GOLD"}, {[oracle_price |-> RefPx, best_bid |-> 10000, best_ask |-> 10000],
                      [oracle_price |-> RefPx, best_bid |-> 9750, best_ask |-> 10000]})

-----------------------------------------------------------------------------
(* A deviation check called on its own *)

NoProbe == [fn |-> "none", symbol |-> "", reference |-> 0, a |-> 0, b |-> 0,
            result |-> <<>>]
ProbeSymbols == {"AAA", "CCC", "XXX"}
ProbeRefs == {0, RefPx}
ProbePx == {0, 7000, 9950, 9951, 10000, 10049, 10050, 10249, 10250, 10499, 10500,
            10800, 11000, 13000, 13001, 14500}

Probe(fn, symbol, reference, a, b, result) ==
    /\ probe = NoProbe
    /\ probe' = [fn |-> fn, symbol |-> symbol, reference |-> reference,
                 a |-> a, b |-> b, result |-> result]
    /\ UNCHANGED <<script, bot, now, pc, scans, binance_prices, alerts, last_alert,
                   consecutive_alerts, blacklisted, created, tasks, updates, chat, log>>

Feed1(key, value) == [k \in {key} |-> value]

Probe_Binance_check_market(symbol, reference, price) ==
    Probe("Binance.check_market", symbol, reference, price, 0,
          Binance_check_market(Feed1(get_binance_symbol(symbol), reference), symbol,
                               [last_trade_price |-> price], get_binance_symbol(symbol)))

Probe_Binance_check_hyperliquid_market(symbol, reference, bid, ask) ==
    Probe("Binance.check_hyperliquid_market", symbol, reference, bid, ask,
          Binance_check_hyperliquid_market(Feed1(get_binance_symbol(symbol), reference),
              symbol, [best_bid |-> bid, best_ask |-> ask], get_binance_symbol(symbol)))

Probe_RWA_check_lighter_market(symbol, reference, price) ==
    Probe("RWA.check_lighter_market", symbol, reference, price, 0,
          RWA_check_lighter_market(EmptyDict, symbol, [last_trade_price |-> price],
                                   reference).result)

Probe_RWA_check_hyperliquid_xyz_market(symbol, reference, bid, ask) ==
    Probe("RWA.check_hyperliquid_xyz_market", symbol, reference, bid, ask,
          RWA_check_hyperliquid_xyz_market(EmptyDict, symbol,
              [oracle_price |-> reference, best_bid |-> bid, best_ask |-> ask]).result)

\* calculate_deviation called on its own, on prices and references for which
\* the percentage has at most two decimals
CalcPx == {0, 5000, 9950, 10000, 10050, 20000, 30000}
CalcRefs == {0, 5000, 10000, 20000}

Probe_Binance_calculate_deviation(reference, price) ==
    Probe("Binance.calculate_deviation", "", reference, price, 0,
          <<calculate_deviation(price, reference)>>)

Probe_RWA_calculate_deviation(reference, price) ==
    Probe("RWA.calculate_deviation", "", reference, price, 0,
          <<RWA_calculate_deviation(price, reference)>>)

Probe_Rest_check_market(symbol, reference, price) ==
    Probe("Rest.check_market", symbol, reference, price, 0,
          Rest_check_market(symbol, price, reference))

Probe_Ws_on_order_book_update(symbol, reference, price) ==
    Probe("Ws.on_order_book_update", symbol, reference, price, 0,
          Ws_on_order_book_update(symbol, [mark_price |-> reference, last_price |-> price]))

-----------------------------------------------------------------------------

Init ==
    /\ script \in {"binance", "rwa", "rest", "ws"}
    /\ bot \in BOOLEAN
    /\ now = 0
    /\ pc = IF script = "ws" THEN "start" ELSE "scan"
    /\ scans = 0
    /\ binance_prices = EmptyDict
    /\ alerts = <<>>
    /\ last_alert = EmptyDict
    /\ consecutive_alerts = EmptyDict
    /\ blacklisted = EmptyDict
    /\ created = <<>>
    /\ tasks = <<>>
    /\ updates = 0
    /\ chat = EmptyDict
    /\ log = <<>>
    /\ probe = NoProbe

Next ==
    \/ \E prices \in BinanceFeeds, lighter_prices \in BinanceLighterFeeds,
          hyperliquid_prices \in BinanceHyperliquidFeeds :
            Binance_scan_all_markets(prices, lighter_prices, hyperliquid_prices)
    \/ \E ok \in BOOLEAN : Binance_send(ok)
    \/ \E pyth_prices \in PythFeeds, lighter_prices \in RWALighterFeeds,
          hyperliquid_prices \in RWAHyperliquidFeeds :
            RWA_scan_all_markets(pyth_prices, lighter_prices, hyperliquid_prices)
    \/ \E ok1, ok2 \in BOOLEAN : RWA_send(ok1, ok2)
    \/ Rest_scan_all_markets
    \/ \E i \in 1..Len(RestMarkets), last_price \in RestLastPx :
            Rest_check(i, last_price, RefPx)
    \/ \E i \in 1..Len(RestMarkets), ok \in BOOLEAN : Rest_send_done(i, ok)
    \/ \E market_ids \in SUBSET WsMarkets : Ws_run(market_ids)
    \/ \E market_id \in WsMarkets, order_book \in OrderBooks, d \in WsDelays :
            Ws_update(market_id, order_book, d)
    \/ \E market_id \in WsMarkets : Ws_send_alert(MarketKey(market_id))
    \/ \E i \in 1..MaxUpdates, ok \in BOOLEAN : Ws_send_done(i, ok)
    \/ \E d \in Delays : Sleep(d)
    \/ \E d \in Delays : Scan_raises(d)
    \/ Ws_stream_raises

Spec == Init /\ [][Next]_vars

\* The three polling scripts under the scheduling of the asyncio event loop: a
\* coroutine that can run is run, a send returns or raises, and a sleep returns
\* (here: after exactly poll_interval)
InitLoop == Init /\ script \in {"binance", "rwa", "rest"}

NextLoop ==
    \/ \E prices \in BinanceFeeds, lighter_prices \in BinanceLighterFeeds,
          hyperliquid_prices \in BinanceHyperliquidFeeds :
            Binance_scan_all_markets(prices, lighter_prices, hyperliquid_prices)
    \/ \E ok \in BOOLEAN : Binance_send(ok)
    \/ \E pyth_prices \in PythFeeds, lighter_prices \in RWALighterFeeds,
          hyperliquid_prices \in RWAHyperliquidFeeds :
            RWA_scan_all_markets(pyth_prices, lighter_prices, hyperliquid_prices)
    \/ \E ok1, ok2 \in BOOLEAN : RWA_send(ok1, ok2)
    \/ Rest_scan_all_markets
    \/ \E i \in 1..Len(RestMarkets), last_price \in RestLastPx :
            Rest_check(i, last_price, RefPx)
    \/ \E i \in 1..Len(RestMarkets), ok \in BOOLEAN : Rest_send_done(i, ok)
    \/ Sleep(poll_interval)
    \/ Scan_raises(poll_interval)

SpecLoop == InitLoop /\ [][NextLoop]_vars /\ WF_vars(NextLoop)

\* price_screener_rwa.py on its own
InitRwa == Init /\ script = "rwa"

NextRwa ==
    \/ \E pyth_prices \in PythFeeds, lighter_prices \in RWALighterFeeds,
          hyperliquid_prices \in RWAHyperliquidFeeds :
            RWA_scan_all_markets(pyth_prices, lighter_prices, hyperliquid_prices)
    \/ \E ok1, ok2 \in BOOLEAN : RWA_send(ok1, ok2)
    \/ \E d \in Delays : Sleep(d)
    \/ \E d \in Delays : Scan_raises(d)

SpecRwa == InitRwa /\ [][NextRwa]_vars


\* The deviation checks alone, on every input of the probe sets
InitCheck == Init /\ script = "binance" /\ bot

NextCheck ==
    \/ \E symbol \in ProbeSymbols, reference \in ProbeRefs, price \in ProbePx :
            Probe_Binance_check_market(symbol, reference, price)
    \/ \E symbol \in ProbeSymbols, reference \in ProbeRefs, bid \in ProbePx, ask \in ProbePx :
            Probe_Binance_check_hyperliquid_market(symbol, reference, bid, ask)
    \/ \E symbol \in ProbeSymbols, reference \in ProbeRefs, price \in ProbePx :
            Probe_RWA_check_lighter_market(symbol, reference, price)
    \/ \E symbol \in ProbeSymbols, reference \in ProbeRefs, bid \in ProbePx, ask \in ProbePx :
            Probe_RWA_check_hyperliquid_xyz_market(symbol, reference, bid, ask)
    \/ \E symbol \in ProbeSymbols, reference \in ProbeRefs, price \in ProbePx :
            Probe_Rest_check_market(symbol, reference, price)
    \/ \E symbol \in ProbeSymbols, reference \in ProbeRefs, price \in ProbePx :
            Probe_Ws_on_order_book_update(symbol, reference, price)
    \/ \E reference \in CalcRefs, price \in CalcPx :
            Probe_Binance_calculate_deviation(reference, price)
    \/ \E reference \in CalcRefs, price \in CalcPx :
            Probe_RWA_calculate_deviation(reference, price)

SpecCheck == InitCheck /\ [][NextCheck]_vars

-----------------------------------------------------------------------------
(* What the claims speak about *)

\* every alert key a run of the script can use (the websocket screener keys
\* last_alert by the integer market id, the others by strings)
Keys ==
    IF script = "ws" THEN {MarketKey(m) : m \in WsMarkets}
    ELSE {HL_BID("AAA"), HL_ASK("AAA"), LT("AAA"), LT("XXX"), HL_BID("XXX"), HL_ASK("XXX"),
          LT("XAU"), HL_XYZ_BID("GOLD"), HL_XYZ_ASK("GOLD"),
          MarketKey("1"), MarketKey("2")}

\* this step is a call send_alert(k) of the send loop of a scan (Binance, RWA)
SendStep(k) ==
    /\ script \in {"binance", "rwa"} /\ pc = "send"
    /\ alerts # <<>> /\ Head(alerts) = k /\ alerts' = Tail(alerts)
    /\ pc' = "send"

\* the messages a step handed to Telegram for key k, delivered or not
PriceAttempted(l, k) == Has(l, "price_sent", k) \/ Has(l, "price_failed", k)
NoticeAttempted(l, k) == Has(l, "notice_sent", k) \/ Has(l, "notice_failed", k)
NoTelegram(l, k) == ~PriceAttempted(l, k) /\ ~NoticeAttempted(l, k)

-----------------------------------------------------------------------------
(* C1.  Auto-blacklist suppression and expiry (Binance and RWA send_alert):    *)
(* a send_alert(k) call at time t while blacklisted[k] = ts hands no message   *)
(* of any kind to Telegram when t - ts < 86400 (and leaves the entry in        *)
(* place); when t - ts >= 86400 it removes k from blacklisted, resets          *)
(* consecutive_alerts[k] to 0 and goes on with the normal evaluation: the      *)
(* cooldown does not stop it, the price alert is attempted (with a bot), and   *)
(* the counter ends at the number of increments made since the reset (1 in     *)
(* the Binance screener; in the RWA screener 1 if the alert was delivered,     *)
(* else 0).                                                                    *)
C1_BlacklistSuppressionAndExpiry ==
    [][\A k \in Keys :
        (SendStep(k) /\ k \in DOMAIN blacklisted) =>
            IF now - blacklisted[k] < blacklist_duration
            THEN /\ NoTelegram(log', k)
                 /\ k \in DOMAIN blacklisted' /\ blacklisted'[k] = blacklisted[k]
            ELSE /\ k \notin DOMAIN blacklisted'
                 /\ Has(log', "blacklist_expired", k)
                 /\ ~Has(log', "cooldown", k)
                 /\ bot => PriceAttempted(log', k)
                 /\ consecutive_alerts'[k] =
                        IF script = "binance" \/ Has(log', "price_sent", k) THEN 1 ELSE 0
      ]_vars

\* a call that found the blacklist of its key expired and delivered the price alert
C1_Witness ==
    \E k \in Keys : Has(log, "blacklist_expired", k) /\ Has(log, "price_sent", k)


-----------------------------------------------------------------------------
(* C2.  Binance send_alert: the call in which consecutive_alerts[k] reaches 2  *)
(* records the blacklist timestamp of k (the call's current_time), hands       *)
(* Telegram only the AUTO-BLACKLISTED notice (with a bot), no price alert,     *)
(* and leaves last_alert unchanged.                                            *)
C2_SecondAlertOnlyBlacklists ==
    [][\A k \in Keys :
        (/\ script = "binance" /\ SendStep(k)
         /\ Get(consecutive_alerts', k, 0) = 2
         /\ consecutive_alerts' # consecutive_alerts) =>
            /\ k \in DOMAIN blacklisted' /\ blacklisted'[k] = now
            /\ ~PriceAttempted(log', k)
            /\ bot => NoticeAttempted(log', k)
            /\ last_alert' = last_alert
      ]_vars

C2_Witness ==
    /\ script = "binance"
    /\ \E k \in Keys : /\ Has(log, "blacklisted_24h", k) /\ Has(log, "notice_sent", k)
                       /\ k \in DOMAIN last_alert /\ last_alert[k] < now


-----------------------------------------------------------------------------
(* C3.  RWA send_alert, as claimed: the call in which consecutive_alerts[k]    *)
(* reaches 2 blacklists k and notifies the operator of the auto-blacklist,     *)
(* and the normal price alert is not also sent in that same call.              *)
C3_Original_NoPriceAlertInBlacklistingCall ==
    [][\A k \in Keys :
        (/\ script = "rwa" /\ SendStep(k)
         /\ Get(consecutive_alerts', k, 0) = 2
         /\ consecutive_alerts' # consecutive_alerts) =>
            /\ k \in DOMAIN blacklisted' /\ blacklisted'[k] = now
            /\ NoticeAttempted(log', k)
            /\ ~PriceAttempted(log', k)
      ]_vars

(* C3, amended.  RWA send_alert increments consecutive_alerts[k] only after    *)
(* the price alert of the call has been delivered, so the call in which the    *)
(* counter reaches 2 has delivered the normal price alert (and set             *)
(* last_alert[k]); it then blacklists k at the call's current_time and hands   *)
(* Telegram the auto-blacklist notice, after the price alert.                  *)
C3_PriceAlertThenBlacklist ==
    [][\A k \in Keys :
        (/\ script = "rwa" /\ SendStep(k)
         /\ Get(consecutive_alerts', k, 0) = 2
         /\ consecutive_alerts' # consecutive_alerts) =>
            /\ k \in DOMAIN blacklisted' /\ blacklisted'[k] = now
            /\ Has(log', "price_sent", k)
            /\ k \in DOMAIN last_alert' /\ last_alert'[k] = now
            /\ NoticeAttempted(log', k)
            /\ \E i, j \in 1..Len(log') :
                  /\ i < j
                  /\ log'[i] = E("price_sent", k)
                  /\ log'[j] \in {E("notice_sent", k), E("notice_failed", k)}
      ]_vars

C3_Witness ==
    /\ script = "rwa"
    /\ \E k \in Keys : /\ Get(consecutive_alerts, k, 0) = 2
                       /\ Has(log, "price_sent", k) /\ Has(log, "notice_sent", k)
                       /\ k \in DOMAIN blacklisted /\ blacklisted[k] = now

-----------------------------------------------------------------------------
(* C4.  Cooldown in the sequential pollers (price_screener.py and              *)
(* price_screener_rwa.py): for every alert key, a price alert is delivered     *)
(* only if the previous delivered price alert for that key is at least         *)
(* alert_cooldown (300 s) older, whatever deliveries failed in between; and    *)
(* the cooldown does not suppress a candidate that send_alert receives         *)
(* exactly 300 s after the last delivered alert: unless the key is held by     *)
(* the 24 h auto-blacklist of the RWA screener, its price alert is handed to   *)
(* Telegram (with a bot).                                                      *)
SendAlertCalled(k) ==
    \/ SendStep(k)
    \/ /\ script = "rest" /\ pc = "gather"
       /\ \E i \in 1..Len(created) :
             /\ MarketKey(created[i]) = k /\ created' = RemoveAt(created, i)
             /\ Has(log', "ALERT", k)

C4_CooldownBetweenDeliveredAlerts ==
    [][\A k \in Keys :
        script \in {"rest", "rwa"} =>
          /\ (Has(log', "price_sent", k) /\ k \in DOMAIN chat)
                => chat'[k] - chat[k] >= alert_cooldown
          /\ (SendAlertCalled(k) /\ k \in DOMAIN chat /\ now - chat[k] = alert_cooldown)
                => /\ ~Has(log', "cooldown", k)
                   /\ (bot /\ ~Has(log', "still_blacklisted", k))
                         => (PriceAttempted(log', k) \/ Has(log', "price_awaited", k))
      ]_vars

\* the second delivered price alert of a key, exactly 300 s after the first
C4_Witness ==
    /\ script = "rwa" /\ bot
    /\ now = alert_cooldown
    /\ \E k \in Keys : /\ Has(log, "price_sent", k)
                       /\ Get(consecutive_alerts, k, 0) = 2
                       /\ k \in DOMAIN chat /\ chat[k] = now

-----------------------------------------------------------------------------
(* C5.  Binance screener, as claimed: counting price alerts and auto-blacklist *)
(* notices alike, two candidates for one key passed to send_alert less than    *)
(* 300 s apart yield at most one delivered notification, that is, a            *)
(* notification of either kind is delivered for a key only 300 s or more       *)
(* after the previous delivered one for that key (the previous price alert is  *)
(* stamped chat[k], the previous notice blacklisted[k]).                       *)
C5_Original_OneNotificationPerWindow ==
    [][\A k \in Keys :
        (/\ script = "binance" /\ SendStep(k)
         /\ (Has(log', "price_sent", k) \/ Has(log', "notice_sent", k))) =>
            /\ k \in DOMAIN chat => now - chat[k] >= alert_cooldown
            /\ k \in DOMAIN blacklisted => now - blacklisted[k] >= alert_cooldown
      ]_vars

(* C5, amended.  In the Binance screener two candidates for one key passed to  *)
(* send_alert less than 300 s apart yield at most one delivered price alert    *)
(* and at most one delivered auto-blacklist notice; the notice is not subject  *)
(* to the cooldown, so the second candidate's notice can follow the first      *)
(* candidate's price alert by less than 300 s.                                 *)
C5_OnePriceAlertOneNoticePerWindow ==
    [][\A k \in Keys :
        (script = "binance" /\ SendStep(k)) =>
            /\ (Has(log', "price_sent", k) /\ k \in DOMAIN chat)
                  => now - chat[k] >= alert_cooldown
            /\ (Has(log', "notice_sent", k) /\ k \in DOMAIN blacklisted)
                  => now - blacklisted[k] >= alert_cooldown
            /\ (Has(log', "price_sent", k) /\ k \in DOMAIN blacklisted)
                  => now - blacklisted[k] >= alert_cooldown
      ]_vars

\* the notice of a second candidate delivered 60 s after the price alert of the first
C5_Witness ==
    /\ script = "binance"
    /\ \E k \in Keys : /\ Has(log, "notice_sent", k)
                       /\ k \in DOMAIN chat /\ now - chat[k] = poll_interval

-----------------------------------------------------------------------------
(* C6.  price_screener_ws.py, as claimed: the cooldown check, the send and the *)
(* write of last_alert of one send_alert task are atomic with respect to the   *)
(* other send_alert tasks of the same market, so under every interleaving at   *)
(* the await on bot.send_message a price alert is delivered for a market only  *)
(* 300 s or more after the previous delivered one.                             *)
C6_Original_CooldownAtomicAcrossTasks ==
    [][\A k \in Keys :
        (/\ script = "ws"
         /\ Has(log', "price_sent", k) /\ tasks' # tasks
         /\ k \in DOMAIN chat) =>
            /\ chat'[k] - chat[k] >= alert_cooldown
      ]_vars

-----------------------------------------------------------------------------
(* What a probe of a deviation check shows *)

ProbeIsBinance == probe.fn \in {"Binance.check_market", "Binance.check_hyperliquid_market"}
ProbeTwoSided ==
    probe.fn \in {"Binance.check_hyperliquid_market", "RWA.check_hyperliquid_xyz_market"}

\* the check got as far as computing its deviations: the prices are there and
\* the symbol is not statically excluded
ProbeComputed ==
    /\ probe.fn \in {"Binance.check_market", "Binance.check_hyperliquid_market",
                     "RWA.check_lighter_market", "RWA.check_hyperliquid_xyz_market",
                     "Rest.check_market", "Ws.on_order_book_update"}
    /\ probe.reference # 0 /\ probe.a # 0
    /\ ProbeTwoSided => probe.b # 0
    /\ ProbeIsBinance => probe.symbol \notin SYMBOL_BLACKLIST

\* the threshold the probed check applies (hundredths of a percent)
ProbeThreshold ==
    CASE probe.fn = "Binance.check_market" ->
            IF probe.symbol \in DOMAIN CUSTOM_THRESHOLDS
            THEN CUSTOM_THRESHOLDS[probe.symbol] ELSE Binance_deviation_threshold
      [] probe.fn = "Binance.check_hyperliquid_market" ->
            IF probe.symbol \in DOMAIN CUSTOM_THRESHOLDS
            THEN CUSTOM_THRESHOLDS[probe.symbol] ELSE Binance_deviation_threshold
      [] probe.fn = "RWA.check_lighter_market" -> RWA_deviation_threshold
      [] probe.fn = "RWA.check_hyperliquid_xyz_market" -> rwa_threshold
      [] probe.fn = "Rest.check_market" -> Rest_deviation_threshold
      [] probe.fn = "Ws.on_order_book_update" -> Ws_deviation_threshold

\* the absolute deviations of the probed prices, in hundredths of a percent
AbsDev(price) ==
    LET d == ((price - probe.reference) * 10000) \div probe.reference
    IN IF d < 0 THEN -d ELSE d
ProbeDevA == AbsDev(probe.a)
ProbeDevB == AbsDev(probe.b)

\* a candidate came out for the first price (last trade, or best bid) / for the ask
ProbeCandidateA ==
    IF ProbeTwoSided
    THEN \E i \in 1..Len(probe.result) : probe.result[i][Len(probe.result[i])] = "BID"
    ELSE probe.result # <<>>
ProbeCandidateB ==
    \E i \in 1..Len(probe.result) : probe.result[i][Len(probe.result[i])] = "ASK"

\* the Binance screener's sanity bound drops the whole symbol
ProbeSanitySuppressed ==
    /\ ProbeIsBinance
    /\ probe.symbol \notin DOMAIN CUSTOM_THRESHOLDS
    /\ \/ ProbeDevA > SanityBound
       \/ ProbeTwoSided /\ ProbeDevB > SanityBound

-----------------------------------------------------------------------------
(* C7.  Threshold boundary, as claimed: in each of the six checks an absolute  *)
(* deviation exactly equal to the applicable threshold produces a candidate    *)
(* alert, and an absolute deviation strictly below it produces none.           *)
C7_Original_ThresholdBoundary ==
    ProbeComputed =>
        /\ ProbeDevA = ProbeThreshold => ProbeCandidateA
        /\ ProbeDevA < ProbeThreshold => ~ProbeCandidateA
        /\ ProbeTwoSided =>
              /\ ProbeDevB = ProbeThreshold => ProbeCandidateB
              /\ ProbeDevB < ProbeThreshold => ~ProbeCandidateB

(* C7, amended.  In each of the six checks an absolute deviation strictly      *)
(* below the applicable threshold produces no candidate, and one exactly equal *)
(* to it produces a candidate unless the sanity bound of the Binance screener  *)
(* drops the symbol: for a symbol without a custom threshold, check_market     *)
(* and check_hyperliquid_market produce nothing when an absolute deviation of  *)
(* the symbol (in check_hyperliquid_market: of either side) is above 30.       *)
C7_ThresholdBoundaryUnlessSanity ==
    ProbeComputed =>
        /\ (ProbeDevA = ProbeThreshold /\ ~ProbeSanitySuppressed) => ProbeCandidateA
        /\ ProbeDevA < ProbeThreshold => ~ProbeCandidateA
        /\ ProbeTwoSided =>
              /\ (ProbeDevB = ProbeThreshold /\ ~ProbeSanitySuppressed) => ProbeCandidateB
              /\ ProbeDevB < ProbeThreshold => ~ProbeCandidateB
        /\ ProbeSanitySuppressed => probe.result = <<>>

\* a bid exactly at the threshold yields its candidate while the ask, one
\* hundredth of a percent below it, yields none
C7_Witness ==
    /\ probe.fn = "Binance.check_hyperliquid_market" /\ ProbeComputed
    /\ ProbeDevA = ProbeThreshold /\ ProbeDevB = ProbeThreshold - 1
    /\ probe.result = <<HL_BID(probe.symbol)>>

-----------------------------------------------------------------------------
(* C8.  Custom threshold overrides default (Binance check_market and           *)
(* check_hyperliquid_market): for a symbol in CUSTOM_THRESHOLDS a side yields  *)
(* a candidate exactly when its absolute deviation is at or above the custom   *)
(* threshold, whatever the default (custom 10, default 0.5, deviation 8: no    *)
(* candidate); for a symbol not in CUSTOM_THRESHOLDS the threshold applied is  *)
(* the default: a side yields a candidate exactly when its absolute deviation  *)
(* is at or above the default and the sanity bound does not drop the symbol.   *)
C8_CustomThresholdOverridesDefault ==
    (ProbeIsBinance /\ ProbeComputed) =>
        LET applied == IF probe.symbol \in DOMAIN CUSTOM_THRESHOLDS
                       THEN CUSTOM_THRESHOLDS[probe.symbol]
                       ELSE Binance_deviation_threshold
        IN /\ ProbeCandidateA <=> (ProbeDevA >= applied /\ ~ProbeSanitySuppressed)
           /\ ProbeTwoSided =>
                 (ProbeCandidateB <=> (ProbeDevB >= applied /\ ~ProbeSanitySuppressed))

\* custom threshold 10 %, default 0.5 %, deviation 8 %: no candidate
C8_Witness ==
    /\ probe.fn = "Binance.check_market" /\ ProbeComputed
    /\ probe.symbol \in DOMAIN CUSTOM_THRESHOLDS
    /\ CUSTOM_THRESHOLDS[probe.symbol] = 1000 /\ Binance_deviation_threshold = 50
    /\ ProbeDevA = 800
    /\ probe.result = <<>>

-----------------------------------------------------------------------------
(* C9.  Sanity bound of Binance check_market: a symbol without a custom        *)
(* threshold whose absolute deviation is above 30 yields no candidate; a       *)
(* symbol with a custom threshold yields a candidate whenever its absolute     *)
(* deviation is at or above that threshold, also above 30; an absolute         *)
(* deviation of exactly 30 is not suppressed.                                  *)
C9_SanityBound ==
    (probe.fn = "Binance.check_market" /\ ProbeComputed) =>
        IF probe.symbol \in DOMAIN CUSTOM_THRESHOLDS
        THEN ProbeDevA >= CUSTOM_THRESHOLDS[probe.symbol]
                => probe.result = <<LT(probe.symbol)>>
        ELSE /\ ProbeDevA > SanityBound => probe.result = <<>>
             /\ ProbeDevA = SanityBound => probe.result = <<LT(probe.symbol)>>

\* a 45 % deviation of a symbol without a custom threshold: no candidate
C9_Witness ==
    /\ probe.fn = "Binance.check_market" /\ ProbeComputed
    /\ probe.symbol \notin DOMAIN CUSTOM_THRESHOLDS
    /\ ProbeDevA = 4500
    /\ probe.result = <<>>

-----------------------------------------------------------------------------
(* C10.  Static exclusion (Binance screener): a symbol of SYMBOL_BLACKLIST     *)
(* never yields a candidate from check_market or check_hyperliquid_market      *)
(* whatever its prices, so over any sequence of scans none of its keys         *)
(* (LT, HL BID, HL ASK) is among the candidates of a scan, in a Telegram       *)
(* message, or in last_alert, consecutive_alerts or blacklisted.               *)
ExcludedKeys == UNION {{LT(sym), HL_BID(sym), HL_ASK(sym)} : sym \in SYMBOL_BLACKLIST}
ExclusionPx == {0, 9950, 10000, 14500}

C10_StaticExclusion ==
    script = "binance" =>
        /\ \A sym \in SYMBOL_BLACKLIST, p, q \in ExclusionPx :
              LET prices == Feed1(get_binance_symbol(sym), RefPx)
              IN /\ Binance_check_market(prices, sym, [last_trade_price |-> p],
                                         get_binance_symbol(sym)) = <<>>
                 /\ Binance_check_hyperliquid_market(prices, sym,
                        [best_bid |-> p, best_ask |-> q], get_binance_symbol(sym)) = <<>>
        /\ \A k \in ExcludedKeys :
              /\ \A i \in 1..Len(alerts) : alerts[i] # k
              /\ \A i \in 1..Len(log) : log[i].key # k
              /\ k \notin DOMAIN last_alert
              /\ k \notin DOMAIN consecutive_alerts
              /\ k \notin DOMAIN blacklisted
              /\ k \notin DOMAIN chat

\* a scan whose feeds quote an excluded symbol off its reference, while another
\* symbol of the same scan yields candidates
C10_Witness ==
    /\ script = "binance"
    /\ \E sym \in SYMBOL_BLACKLIST : Has(log, "in_blacklist", <<sym>>)
    /\ alerts # <<>>

-----------------------------------------------------------------------------
(* C11.  calculate_deviation of the Binance and of the RWA screener: called    *)
(* with (observed, reference) it returns 0 when reference is 0 and otherwise   *)
(* the signed percentage d with d * reference = (observed - reference) * 100   *)
(* (negative when observed is below the reference), and the call changes       *)
(* nothing of the screener: bot, clock, tables, lists and log stay as they     *)
(* were.  (The value is a function of the two arguments alone, so a second     *)
(* evaluation of the same pair returns it again.)                              *)
C11_CalculateDeviationPure ==
    [][(probe'.fn \in {"Binance.calculate_deviation", "RWA.calculate_deviation"}
        /\ probe' # probe) =>
          LET observed == probe'.a
              reference == probe'.reference
              d == probe'.result[1]
          IN /\ Len(probe'.result) = 1
             /\ reference = 0 => d = 0
             /\ reference # 0 => d * reference = (observed - reference) * 10000
             /\ (reference # 0 /\ observed < reference) => d < 0
             /\ UNCHANGED <<script, bot, now, pc, scans, binance_prices, alerts,
                            last_alert, consecutive_alerts, blacklisted, created,
                            tasks, updates, chat, log>>
      ]_vars

\* an observed price 0.5 % below its reference: the deviation is -0.50
C11_Witness ==
    /\ probe.fn \in {"Binance.calculate_deviation", "RWA.calculate_deviation"}
    /\ probe.reference = 10000 /\ probe.a = 9950
    /\ probe.result = <<-50>>

-----------------------------------------------------------------------------
\* this step is the part of scan_all_markets (Binance, RWA) that runs the
\* per-symbol deviation checks and collects their candidates
ScanStep == script \in {"binance", "rwa"} /\ pc = "scan" /\ pc' = "send"

(* C12, as claimed.  The per-symbol deviation checks leave last_alert,         *)
(* consecutive_alerts and blacklisted unchanged for every key: the three       *)
(* tables are written by send_alert only.                                      *)
C12_Original_ChecksLeaveTables ==
    [][ScanStep => UNCHANGED <<last_alert, consecutive_alerts, blacklisted>>]_vars

(* C12, amended.  The per-symbol deviation checks leave last_alert and         *)
(* blacklisted unchanged for every key.  The checks of the Binance screener    *)
(* leave consecutive_alerts unchanged too; check_lighter_market and            *)
(* check_hyperliquid_xyz_market of the RWA screener set consecutive_alerts[k]  *)
(* to 0 for a key k that has an entry and whose deviation they find below the  *)
(* threshold, and change no other entry.  In price_screener.py and             *)
(* price_screener_ws.py last_alert changes only where a send_alert call        *)
(* resumes after its send.                                                     *)
C12_ChecksOnlyResetCounters ==
    [][/\ ScanStep =>
            /\ UNCHANGED <<last_alert, blacklisted>>
            /\ script = "binance" => UNCHANGED consecutive_alerts
            /\ script = "rwa" =>
                  /\ DOMAIN consecutive_alerts' = DOMAIN consecutive_alerts
                  /\ \A k \in DOMAIN consecutive_alerts :
                        consecutive_alerts'[k] # consecutive_alerts[k] =>
                            /\ consecutive_alerts'[k] = 0
                            /\ \A i \in 1..Len(alerts') : alerts'[i] # k
       /\ (script \in {"rest", "ws"}
           /\ <<last_alert, consecutive_alerts, blacklisted>>'
                 # <<last_alert, consecutive_alerts, blacklisted>>) =>
            /\ Len(tasks') < Len(tasks)
            /\ UNCHANGED <<consecutive_alerts, blacklisted>>
      ]_vars

\* an RWA scan has just reset the counter of a key that had a delivered alert
C12_Witness ==
    /\ script = "rwa" /\ pc = "send" /\ Has(log, "scanning", NoKey)
    /\ now < blacklist_duration
    /\ \E k \in DOMAIN consecutive_alerts :
          /\ consecutive_alerts[k] = 0
          /\ k \in DOMAIN last_alert /\ k \notin DOMAIN blacklisted
          /\ \A i \in 1..Len(alerts) : alerts[i] # k

-----------------------------------------------------------------------------
\* this step is the i-th suspended send_alert call of price_screener.py or
\* price_screener_ws.py resuming, for key k, after `await self.bot.send_message`
SendResumes(k, i) ==
    /\ script \in {"rest", "ws"}
    /\ i \in 1..Len(tasks)
    /\ tasks[i].key = k
    /\ tasks' = RemoveAt(tasks, i)
    /\ ~Has(log', "ws_error", NoKey)

\* the keys a send_alert call can be acting on in this step: the candidate next
\* in line of a scan, the keys of the calls waiting on their Telegram send
Pending ==
    (IF alerts # <<>> THEN {Head(alerts)} ELSE {})
        \cup {tasks[i].key : i \in 1..Len(tasks)}

\* consecutive_alerts[k] as a send_alert call finds it once past the blacklist
\* check (an expired blacklist entry resets it to 0)
CountPastBlacklist(k) ==
    IF k \in DOMAIN blacklisted THEN 0 ELSE Get(consecutive_alerts, k, 0)

(* C13, as claimed.  In send_alert of every screener, once the price alert of  *)
(* a candidate is attempted, last_alert[key] is set to the call's current time *)
(* (and in the RWA screener consecutive_alerts[key] is incremented) whether    *)
(* the Telegram send succeeds or raises TelegramError.                         *)
C13_Original_UpdatesRegardlessOfDelivery ==
    [][\A k \in Keys :
        /\ (SendStep(k) /\ PriceAttempted(log', k)) =>
              /\ k \in DOMAIN last_alert' /\ last_alert'[k] = now
              /\ script = "rwa" =>
                    Get(consecutive_alerts', k, 0) = CountPastBlacklist(k) + 1
        /\ \A i \in 1..Len(tasks) :
              (SendResumes(k, i) /\ PriceAttempted(log', k)) =>
                  k \in DOMAIN last_alert' /\ last_alert'[k] = tasks[i].current_time
      ]_vars

(* C13, amended.  In send_alert of every screener last_alert[key] is set to    *)
(* the call's current time (and in the RWA screener consecutive_alerts[key]    *)
(* is incremented) only when the Telegram send of the price alert succeeds;    *)
(* when it raises TelegramError both are left as they were.  What the call     *)
(* wrote before the send is kept either way: the reset of an expired           *)
(* blacklist entry, and in the Binance screener the increment of               *)
(* consecutive_alerts[key].                                                    *)
C13_UpdatesOnlyOnDelivery ==
    [][\A k \in Pending :
        /\ (SendStep(k) /\ Has(log', "price_sent", k)) =>
              /\ k \in DOMAIN last_alert' /\ last_alert'[k] = now
              /\ Get(consecutive_alerts', k, 0) = CountPastBlacklist(k) + 1
        /\ (SendStep(k) /\ Has(log', "price_failed", k)) =>
              /\ last_alert' = last_alert
              /\ k \notin DOMAIN blacklisted'
              /\ Get(consecutive_alerts', k, 0) =
                    CountPastBlacklist(k) + (IF script = "binance" THEN 1 ELSE 0)
        /\ \A i \in 1..Len(tasks) :
              SendResumes(k, i) =>
                  /\ Has(log', "price_sent", k) =>
                        /\ k \in DOMAIN last_alert'
                        /\ last_alert'[k] = tasks[i].current_time
                  /\ Has(log', "price_failed", k) => last_alert' = last_alert
                  /\ PriceAttempted(log', k)
      ]_vars

\* a price alert whose delivery failed, and no last_alert entry for its key
C13_Witness ==
    \E k \in Keys : Has(log, "price_failed", k) /\ k \notin DOMAIN last_alert

-----------------------------------------------------------------------------
\* a Telegram send of this step for key k raised TelegramError
DeliveryFailed(l, k) == Has(l, "price_failed", k) \/ Has(l, "notice_failed", k)

(* C14.  Delivery-failure isolation in scan_all_markets of the Binance and     *)
(* the RWA screener.  While candidates of a scan are waiting in `alerts`, the  *)
(* only thing the scan does, unless it raises an exception of another kind, is *)
(* to call send_alert for the first of them, which                             *)
(* takes exactly that candidate off the list and leaves the scan in its send   *)
(* loop, also when the delivery raises TelegramError: the later candidates     *)
(* stay in line, the scan ends only with the list empty, and the failed        *)
(* message is not sent again in that scan (a key is in the list once, and      *)
(* messages for a key are handed to Telegram only by the call that takes it    *)
(* off the list).                                                              *)
C14_DeliveryFailureIsolation ==
    [][(script \in {"binance", "rwa"}) =>
         (/\ \A i, j \in 1..Len(alerts) : (alerts[i] = alerts[j]) => (i = j)
          /\ (pc = "send" /\ alerts # <<>> /\ ~Has(log', "scan_error", NoKey)) =>
                (SendStep(Head(alerts)) /\ pc' = "send")
          /\ \A i \in 1..Len(log') :
                /\ DeliveryFailed(<<log'[i]>>, log'[i].key) =>
                      (alerts' = Tail(alerts) /\ pc' = "send")
                /\ (~NoTelegram(<<log'[i]>>, log'[i].key)) => SendStep(log'[i].key)
          /\ (pc = "send" /\ pc' = "scan" /\ ~Has(log', "scan_error", NoKey)) =>
                (alerts = <<>> /\ Has(log', "scan_complete", NoKey)))
      ]_vars

\* the delivery for one candidate has just failed and a later candidate of the
\* same scan is next in line
C14_Witness ==
    /\ script \in {"binance", "rwa"} /\ pc = "send"
    /\ alerts # <<>>
    /\ \E k \in Keys : DeliveryFailed(log, k) /\ Head(alerts) # k

-----------------------------------------------------------------------------
(* C15.  Scan-loop resilience of run() in price_screener.py,                   *)
(* price_screener_binance.py and price_screener_rwa.py: an Exception raised    *)
(* by scan_all_markets does not end the loop; after every cycle, failed or     *)
(* not, the loop sleeps at least poll_interval and is then about to scan       *)
(* again; and another scan is eventually started, as often as the model        *)
(* counts scans (up to MaxScans).                                              *)
C15_ScanLoopResilience ==
    /\ [][(script \in {"binance", "rwa", "rest"}) =>
            (/\ Has(log', "scan_error", NoKey) => pc' = "scan"
             /\ (pc' = "scan" /\ (pc # "scan" \/ scans' # scans)) =>
                   now' >= now + poll_interval
             /\ pc' \in {"scan", "send", "gather"})
         ]_vars
    /\ <>(scans = MaxScans)

\* a scan has raised, the loop has slept and the next scan can start
C15_Witness ==
    /\ script \in {"binance", "rwa", "rest"}
    /\ Has(log, "scan_error", NoKey)
    /\ pc = "scan" /\ now >= poll_interval
    /\ scans >= 1 /\ scans < MaxScans

-----------------------------------------------------------------------------
(* C16.  price_screener_ws.py run(), as claimed: no external failure is fatal; *)
(* neither a failed or empty market fetch nor an exception raised by the       *)
(* WebSocket stream ends the monitoring (no operator interruption occurs in    *)
(* the model, so run() never returns).                                         *)
C16_Original_NoFailureIsFatal ==
    script = "ws" => pc \in {"start", "stream"}

-----------------------------------------------------------------------------
(* C17.  Reference source unavailable means no data this cycle: a scan of the  *)
(* Binance or of the RWA screener whose reference fetch returns an empty       *)
(* mapping (Binance mark prices, Pyth prices), or whose two exchange fetches   *)
(* both return empty mappings, ends with no candidate to pass to send_alert,   *)
(* hands nothing to Telegram and leaves last_alert, consecutive_alerts and     *)
(* blacklisted as they were.                                                   *)
NoDataOutcome ==
    /\ alerts' = <<>>
    /\ UNCHANGED <<last_alert, consecutive_alerts, blacklisted, chat>>
    /\ \A k \in Keys : NoTelegram(log', k) /\ ~Has(log', "ALERT", k)
    /\ pc' = "send"

C17_NoReferenceNoData ==
    [][ScanStep =>
         (/\ script = "binance" =>
                \A prices \in BinanceFeeds, lighter_prices \in BinanceLighterFeeds,
                   hyperliquid_prices \in BinanceHyperliquidFeeds :
                  (/\ prices = EmptyDict
                         \/ (lighter_prices = EmptyDict /\ hyperliquid_prices = EmptyDict)
                   /\ Binance_scan_all_markets(prices, lighter_prices, hyperliquid_prices))
                      => NoDataOutcome
          /\ script = "rwa" =>
                \A pyth_prices \in PythFeeds, lighter_prices \in RWALighterFeeds,
                   hyperliquid_prices \in RWAHyperliquidFeeds :
                  (/\ pyth_prices = EmptyDict
                         \/ (lighter_prices = EmptyDict /\ hyperliquid_prices = EmptyDict)
                   /\ RWA_scan_all_markets(pyth_prices, lighter_prices, hyperliquid_prices))
                      => NoDataOutcome)
      ]_vars

\* a scan has just been skipped for want of reference prices, with alert state
\* from earlier scans in the tables
C17_Witness ==
    /\ script \in {"binance", "rwa"}
    /\ Has(log, "no_reference_prices", NoKey)
    /\ pc = "send" /\ alerts = <<>>
    /\ last_alert # EmptyDict /\ consecutive_alerts # EmptyDict

-----------------------------------------------------------------------------
(* C18.  price_screener_rwa.py scan_all_markets, as claimed: when the Pyth     *)
(* fetch returns no prices while the Hyperliquid xyz fetch succeeds, the       *)
(* Hyperliquid xyz markets, which are compared against Hyperliquid's own       *)
(* oracle price, are still evaluated in that cycle: the scan ends with the     *)
(* candidates and the counter resets of check_hyperliquid_xyz_market.          *)
C18_Original_HyperliquidEvaluatedWithoutPyth ==
    [][(ScanStep /\ script = "rwa") =>
          \A lighter_prices \in RWALighterFeeds, hyperliquid_prices \in RWAHyperliquidFeeds :
             (/\ hyperliquid_prices # EmptyDict
              /\ RWA_scan_all_markets(EmptyDict, lighter_prices, hyperliquid_prices)) =>
                 LET hl == RWA_hyperliquid_loop(consecutive_alerts, hyperliquid_prices, 1)
                 IN /\ alerts' = hl.result
                    /\ consecutive_alerts' = hl.consecutive_alerts
      ]_vars

-----------------------------------------------------------------------------
\* this step moves key k from ACTIVE to BLACKLISTED
Blacklists(k) ==
    /\ k \in DOMAIN blacklisted'
    /\ k \notin DOMAIN blacklisted \/ blacklisted'[k] # blacklisted[k]

(* C19, as claimed.  In the Binance and the RWA screener a key moves from      *)
(* ACTIVE to BLACKLISTED only when the threshold has been crossed twice within *)
(* the cooldown window: the two candidate alerts that bring its counter to 2   *)
(* are less than 300 s apart, and two candidates further apart never           *)
(* blacklist it.  (Before the first blacklist of a key can expire, chat[k] is  *)
(* the time of the first of the two: the delivered alert counted before.)      *)
C19_Original_BlacklistOnlyWithinCooldown ==
    [][\A k \in Keys :
        (/\ script \in {"binance", "rwa"}
         /\ Blacklists(k)
         /\ now < blacklist_duration
         /\ k \in DOMAIN chat /\ Get(consecutive_alerts, k, 0) = 1) =>
            now - chat[k] < alert_cooldown
      ]_vars

(* C19, amended.  In the Binance and the RWA screener a key moves from ACTIVE  *)
(* to BLACKLISTED only in the send_alert call for that key that brings         *)
(* consecutive_alerts[k] to 2, at that call's current_time, however far apart  *)
(* the two counted candidates are: the Binance screener counts every candidate *)
(* that an active blacklist does not drop, the RWA screener counts delivered   *)
(* price alerts, which are 300 s or more apart.  Two candidates further apart  *)
(* than the cooldown do blacklist the key.                                     *)
C19_BlacklistAtSecondCountedAlert ==
    [][\A k \in Keys :
        (script \in {"binance", "rwa"} /\ Blacklists(k)) =>
            /\ SendStep(k)
            /\ blacklisted'[k] = now
            /\ CountPastBlacklist(k) = 1
            /\ consecutive_alerts'[k] = 2
            /\ (script = "rwa" /\ k \in DOMAIN chat) => now - chat[k] >= alert_cooldown
      ]_vars

\* a key blacklisted by its second candidate, a day after its first one
C19_Witness ==
    /\ script = "binance"
    /\ \E k \in Keys : /\ Has(log, "blacklisted_24h", k)
                       /\ k \in DOMAIN blacklisted /\ blacklisted[k] = now
                       /\ k \in DOMAIN chat /\ now - chat[k] = blacklist_duration
                       /\ consecutive_alerts[k] = 2

-----------------------------------------------------------------------------
\* |deviation| < threshold, the else branch of the checks of the RWA screener
RWA_below(price, oracle_price, threshold) ==
    LET deviation == RWA_calculate_deviation(price, oracle_price)
    IN (IF deviation < 0 THEN -deviation ELSE deviation) < threshold

\* the keys a scan of the RWA screener on these fetches evaluates and finds
\* below their threshold
RWA_normalized(pyth_prices, lighter_prices, hyperliquid_prices) ==
    IF pyth_prices = EmptyDict
       \/ (lighter_prices = EmptyDict /\ hyperliquid_prices = EmptyDict)
    THEN {}
    ELSE {LT(symbol) : symbol \in
            {s \in DOMAIN lighter_prices :
                /\ Get(pyth_prices, s, 0) # 0
                /\ lighter_prices[s].last_trade_price # 0
                /\ RWA_below(lighter_prices[s].last_trade_price, pyth_prices[s],
                             RWA_deviation_threshold)}}
         \cup
         {HL_XYZ_BID(symbol) : symbol \in
            {s \in DOMAIN hyperliquid_prices :
                LET q == hyperliquid_prices[s]
                IN /\ q.oracle_price # 0 /\ q.best_bid # 0 /\ q.best_ask # 0
                   /\ RWA_below(q.best_bid, q.oracle_price, rwa_threshold)}}
         \cup
         {HL_XYZ_ASK(symbol) : symbol \in
            {s \in DOMAIN hyperliquid_prices :
                LET q == hyperliquid_prices[s]
                IN /\ q.oracle_price # 0 /\ q.best_bid # 0 /\ q.best_ask # 0
                   /\ RWA_below(q.best_ask, q.oracle_price, rwa_threshold)}}

(* C20.  Counting policy of price_screener_rwa.py: consecutive_alerts[k] grows *)
(* only in a send_alert(k) call whose price alert was delivered, and then by   *)
(* one (never in a call dropped by blacklist or cooldown, or whose delivery    *)
(* failed); every scan that evaluates the deviation of k and finds it below    *)
(* its threshold leaves the counter of k at 0; a counter above 0 therefore     *)
(* counts delivered alerts, and a key is blacklisted only in a call that       *)
(* delivers its price alert while the counter stands at 1 from an earlier      *)
(* delivered alert, no below-threshold evaluation having reset it since.       *)
C20_RwaCountingPolicy ==
    [][(script = "rwa") =>
        /\ \A k \in Keys :
            /\ Get(consecutive_alerts', k, 0) > Get(consecutive_alerts, k, 0) =>
                  /\ SendStep(k)
                  /\ Has(log', "price_sent", k)
                  /\ ~Has(log', "still_blacklisted", k) /\ ~Has(log', "cooldown", k)
                  /\ ~Has(log', "price_failed", k)
                  /\ consecutive_alerts'[k] = CountPastBlacklist(k) + 1
            /\ (SendStep(k) /\ ~Has(log', "price_sent", k)) =>
                  Get(consecutive_alerts', k, 0) <= Get(consecutive_alerts, k, 0)
            /\ Get(consecutive_alerts, k, 0) > 0 =>
                  k \in DOMAIN chat /\ chat[k] <= now
            /\ Blacklists(k) =>
                  /\ SendStep(k)
                  /\ Has(log', "price_sent", k)
                  /\ CountPastBlacklist(k) = 1
                  /\ k \in DOMAIN chat /\ chat[k] < now
        /\ ScanStep =>
              \A pyth_prices \in PythFeeds, lighter_prices \in RWALighterFeeds,
                 hyperliquid_prices \in RWAHyperliquidFeeds :
                RWA_scan_all_markets(pyth_prices, lighter_prices, hyperliquid_prices) =>
                    \A k \in RWA_normalized(pyth_prices, lighter_prices,
                                            hyperliquid_prices) :
                        Get(consecutive_alerts', k, 0) = 0
      ]_vars

\* a key of the RWA screener blacklisted by its second delivered alert, after a
\* scan that reset the counter of another key with a delivered alert
C20_Witness ==
    /\ script = "rwa"
    /\ \E k \in Keys :
        /\ Has(log, "price_sent", k) /\ Has(log, "blacklisted_24h", k)
        /\ consecutive_alerts[k] = 2
        /\ k \in DOMAIN blacklisted /\ blacklisted[k] = now
        /\ \E k2 \in DOMAIN chat \ {k} :
              k2 \notin DOMAIN blacklisted /\ consecutive_alerts[k2] = 0

-----------------------------------------------------------------------------
\* key k is under an unexpired blacklist at the time of this step
Unexpired(k) ==
    k \in DOMAIN blacklisted /\ now - blacklisted[k] < blacklist_duration

(* C21.  Counting policy of price_screener_binance.py.  A send_alert(k) call   *)
(* that an unexpired blacklist does not drop leaves consecutive_alerts[k] one  *)
(* above what it found (0 after an expired blacklist), whether the call is     *)
(* cooled down, delivers or fails to deliver; a dropped call leaves the        *)
(* counters alone; no other step writes a counter, a scan with below-threshold *)
(* deviations included, and a counter goes down only with the expiry of the    *)
(* key's blacklist.  Hence a candidate that finds the counter at 1, the second *)
(* since the start or the last expiry, blacklists the key.                     *)
C21_BinanceCountingPolicy ==
    [][(script = "binance") =>
        /\ \A k \in Pending :
            SendStep(k) =>
              /\ Unexpired(k) => consecutive_alerts' = consecutive_alerts
              /\ ~Unexpired(k) =>
                    /\ consecutive_alerts' =
                          Put(consecutive_alerts, k, CountPastBlacklist(k) + 1)
                    /\ CountPastBlacklist(k) \in {0, 1}
                    /\ CountPastBlacklist(k) = 1 =>
                          (k \in DOMAIN blacklisted' /\ blacklisted'[k] = now)
                    /\ consecutive_alerts'[k] < Get(consecutive_alerts, k, 0) =>
                          (k \in DOMAIN blacklisted /\ Has(log', "blacklist_expired", k))
        /\ (consecutive_alerts' # consecutive_alerts) =>
              (alerts # <<>> /\ SendStep(Head(alerts)))
        /\ ScanStep => consecutive_alerts' = consecutive_alerts
      ]_vars

\* a key blacklisted by its second candidate, two scans after the first one
\* was delivered: the scan in between did not raise its counter
C21_Witness ==
    /\ script = "binance" /\ scans = 3
    /\ \E k \in Keys : /\ Has(log, "blacklisted_24h", k)
                       /\ consecutive_alerts[k] = 2
                       /\ k \in DOMAIN chat /\ now - chat[k] = 2 * poll_interval

-----------------------------------------------------------------------------
\* dicts d and e hold the same entries for every key but k
SameExcept(d, e, k) ==
    /\ (DOMAIN d) \ {k} = (DOMAIN e) \ {k}
    /\ \A x \in (DOMAIN d) \ {k} : d[x] = e[x]

(* C22.  Two-sided markets are tracked independently (Binance and RWA          *)
(* screener).  The candidates of a scan are under pairwise distinct keys, a    *)
(* Hyperliquid symbol contributing at most its BID and its ASK key; a          *)
(* send_alert(k) call leaves the entries of every other key in last_alert,     *)
(* consecutive_alerts and blacklisted as they were; and when it drops or cools *)
(* down the candidate, it does so on the blacklist and last_alert entries of k *)
(* itself, never on those of the other side.                                   *)
C22_TwoSidedIndependent ==
    [][(script \in {"binance", "rwa"}) =>
        /\ ScanStep =>
              /\ \A i, j \in 1..Len(alerts') : (alerts'[i] = alerts'[j]) => (i = j)
              /\ \A i \in 1..Len(alerts') :
                    Len(alerts'[i]) = 3 => alerts'[i][3] \in {"BID", "ASK"}
        /\ \A k \in Pending :
            SendStep(k) =>
              /\ SameExcept(last_alert, last_alert', k)
              /\ SameExcept(consecutive_alerts, consecutive_alerts', k)
              /\ SameExcept(blacklisted, blacklisted', k)
              /\ Has(log', "still_blacklisted", k) <=> Unexpired(k)
              /\ Has(log', "cooldown", k) =>
                    (k \in DOMAIN last_alert /\ now - last_alert[k] < alert_cooldown)
              /\ (bot /\ ~Unexpired(k) /\ CountPastBlacklist(k) = 0
                      /\ k \notin DOMAIN last_alert) => PriceAttempted(log', k)
      ]_vars

\* the price alert of one side delivered while the other side of the same
\* symbol is under an unexpired blacklist
C22_Witness ==
    /\ script \in {"binance", "rwa"}
    /\ \E k, k2 \in Keys :
          /\ Len(k) = 3 /\ Len(k2) = 3 /\ k[2] = k2[2] /\ k[3] # k2[3]
          /\ Has(log, "price_sent", k)
          /\ k2 \in DOMAIN blacklisted /\ now - blacklisted[k2] < blacklist_duration
          /\ k \notin DOMAIN blacklisted

-----------------------------------------------------------------------------
\* the alert keys of the send_alert calls a scan still has to make or to finish
InFlight ==
    alerts \o [i \in 1..Len(created) |-> MarketKey(created[i])]
           \o [i \in 1..Len(tasks) |-> tasks[i].key]

(* C23.  Serialized evaluation in the REST pollers (price_screener.py, the     *)
(* Binance and the RWA screener).  A scan starts only when no work of an       *)
(* earlier scan is left: no candidate waiting, no check_market coroutine       *)
(* unfinished, no send_alert suspended on Telegram; between the end of a scan  *)
(* and the start of the next at least poll_interval elapses; and within a scan *)
(* the send_alert calls made or still to make are for pairwise distinct keys:  *)
(* in price_screener.py the coroutines gathered concurrently, suspended or not *)
(* yet run, never share an alert key.                                          *)
C23_SerializedScans ==
    [][(script \in {"binance", "rwa", "rest"}) =>
        /\ (scans' # scans) =>
              /\ pc = "scan" /\ scans' = scans + 1
              /\ alerts = <<>> /\ created = <<>> /\ tasks = <<>>
        /\ (pc # "scan" /\ pc' = "scan") => now' >= now + poll_interval
        /\ (pc' = "scan") => (alerts' = <<>> /\ created' = <<>> /\ tasks' = <<>>)
        /\ \A i, j \in 1..Len(InFlight') : (InFlight'[i] = InFlight'[j]) => (i = j)
        /\ (script = "rest" /\ tasks' # tasks /\ Len(tasks') > Len(tasks)) =>
              \A i \in 1..Len(tasks) : tasks[i].key # tasks'[Len(tasks')].key
      ]_vars

\* price_screener.py in its second scan or later, with two send_alert calls
\* suspended on Telegram at once, for two keys
C23_Witness ==
    /\ script = "rest" /\ scans >= 2 /\ pc = "gather"
    /\ Len(tasks) = 2 /\ tasks[1].key # tasks[2].key

-----------------------------------------------------------------------------
(* C24.  Dropping a candidate for a blacklisted key is silent and changes      *)
(* nothing (Binance and RWA send_alert): a call for key k whose blacklist      *)
(* timestamp is less than 86400 s old leaves blacklisted, consecutive_alerts   *)
(* and last_alert as they were, the timestamp of k included, so that the       *)
(* period is not extended; it hands nothing to Telegram and logs neither the   *)
(* ALERT warning nor anything but the debug line.                              *)
C24_BlacklistedDropIsSilent ==
    [][\A k \in Pending :
        (script \in {"binance", "rwa"} /\ SendStep(k) /\ Unexpired(k)) =>
            /\ blacklisted' = blacklisted /\ blacklisted'[k] = blacklisted[k]
            /\ consecutive_alerts' = consecutive_alerts
            /\ last_alert' = last_alert
            /\ chat' = chat
            /\ log' = <<E("still_blacklisted", k)>>
      ]_vars

\* a candidate dropped some time into the blacklist period of its key
C24_Witness ==
    /\ script \in {"binance", "rwa"}
    /\ \E k \in Keys : /\ Has(log, "still_blacklisted", k)
                       /\ k \in DOMAIN blacklisted
                       /\ blacklisted[k] < now
                       /\ now - blacklisted[k] >= alert_cooldown

-----------------------------------------------------------------------------
(* C25.  Invariant of price_screener_binance.py, between any two steps of its  *)
(* send_alert calls: for every key consecutive_alerts[key] (0 when absent) is  *)
(* at most 2, and the key has an entry in blacklisted if and only if           *)
(* consecutive_alerts[key] is 2.                                               *)
C25_BinanceCounterInvariant ==
    script = "binance" =>
        \A k \in Keys :
            /\ Get(consecutive_alerts, k, 0) \in 0..ConsecutiveLimit
            /\ (k \in DOMAIN blacklisted) <=>
                  (Get(consecutive_alerts, k, 0) = ConsecutiveLimit)

\* one key counted once again after the expiry of its blacklist entry
C25_Witness ==
    /\ script = "binance"
    /\ \E k \in Keys : /\ Has(log, "blacklist_expired", k)
                       /\ k \notin DOMAIN blacklisted
                       /\ consecutive_alerts[k] = 1

-----------------------------------------------------------------------------
(* C26.  price_screener_binance.py, blacklist_duration (86400) being greater   *)
(* than alert_cooldown (300): no send_alert call ends in the cooldown branch;  *)
(* with a bot, every call that an unexpired blacklist does not drop attempts   *)
(* one notification, a price alert when the counter of the key stands at 0     *)
(* (no attempt so far, or the last one was the notice of a blacklist since     *)
(* expired) and an auto-blacklist notice when it stands at 1 (the last attempt *)
(* was a price alert), so the attempts for a key alternate, price alert first, *)
(* and a key gets at most one price alert per blacklist period.                *)
C26_BinanceAlternation ==
    [][(script = "binance") =>
        /\ \A i \in 1..Len(log') : log'[i].ev # "cooldown"
        /\ \A k \in Pending :
            SendStep(k) =>
              /\ PriceAttempted(log', k) =>
                    /\ CountPastBlacklist(k) = 0 /\ consecutive_alerts'[k] = 1
                    /\ k \notin DOMAIN blacklisted'
                    /\ ~NoticeAttempted(log', k)
              /\ NoticeAttempted(log', k) =>
                    /\ CountPastBlacklist(k) = 1 /\ consecutive_alerts'[k] = 2
                    /\ k \notin DOMAIN blacklisted
                    /\ k \in DOMAIN blacklisted' /\ blacklisted'[k] = now
                    /\ ~PriceAttempted(log', k)
              /\ (bot /\ ~Unexpired(k)) =>
                    (PriceAttempted(log', k) \/ NoticeAttempted(log', k))
              /\ Unexpired(k) => NoTelegram(log', k)
        /\ \A i \in 1..Len(log') :
              log'[i].ev \in {"price_sent", "price_failed", "notice_sent", "notice_failed"}
                  => (alerts # <<>> /\ SendStep(log'[i].key))
      ]_vars

\* the second price alert of a key, attempted once its blacklist has expired
C26_Witness ==
    /\ script = "binance" /\ bot
    /\ \E k \in Keys : /\ Has(log, "blacklist_expired", k)
                       /\ PriceAttempted(log, k)
                       /\ k \in DOMAIN last_alert

-----------------------------------------------------------------------------
(* C27.  In price_screener_binance.py auto-blacklisting does not depend on the *)
(* Notifier.  Bot or no bot, delivery or TelegramError, the send_alert call    *)
(* that finds the counter of its key at 1 sets blacklisted[key] to its         *)
(* current_time, and a later call less than 86400 s after that is dropped; the *)
(* call whose auto-blacklist notice fails leaves the key blacklisted; without  *)
(* a bot nothing is handed to Telegram.                                        *)
C27_BlacklistWithoutNotifier ==
    [][(script = "binance") =>
        \A k \in Pending :
            SendStep(k) =>
              /\ (~Unexpired(k) /\ CountPastBlacklist(k) = 1) =>
                    /\ blacklisted' = Put(blacklisted, k, now)
                    /\ consecutive_alerts'[k] = 2
                    /\ Has(log', "blacklisted_24h", k)
                    /\ bot => NoticeAttempted(log', k)
              /\ Has(log', "notice_failed", k) =>
                    (k \in DOMAIN blacklisted' /\ blacklisted'[k] = now)
              /\ Unexpired(k) =>
                    (blacklisted' = blacklisted /\ log' = <<E("still_blacklisted", k)>>)
              /\ ~bot => NoTelegram(log', k)
      ]_vars

\* a candidate dropped by a blacklist that was set without any message ever
\* delivered for its key: no bot, or every send failed
C27_Witness ==
    /\ script = "binance"
    /\ \E k \in Keys : /\ Has(log, "still_blacklisted", k)
                       /\ k \in DOMAIN blacklisted
                       /\ k \notin DOMAIN last_alert /\ k \notin DOMAIN chat

-----------------------------------------------------------------------------
(* C28.  In price_screener_rwa.py, as long as no price alert has been          *)
(* delivered for a key (no bot, or every delivery so far raised                *)
(* TelegramError), no alert state is recorded for it: the key has no entry in  *)
(* last_alert, consecutive_alerts or blacklisted; and every send_alert call    *)
(* for it passes the blacklist and the cooldown check and, with a bot,         *)
(* attempts the price alert again.  Without a bot nothing is ever delivered.   *)
C28_RwaNoDeliveryNoState ==
    [][(script = "rwa") =>
        /\ ~bot => chat' = EmptyDict
        /\ \A k \in Keys \ DOMAIN chat' :
              /\ k \notin DOMAIN last_alert'
              /\ k \notin DOMAIN consecutive_alerts'
              /\ k \notin DOMAIN blacklisted'
        /\ \A k \in Pending \ DOMAIN chat :
            SendStep(k) =>
              /\ Has(log', "ALERT", k)
              /\ ~Has(log', "cooldown", k) /\ ~Has(log', "still_blacklisted", k)
              /\ bot => PriceAttempted(log', k)
              /\ ~bot => NoTelegram(log', k)
      ]_vars

\* in a second scan or later, and inside what would be the cooldown of a
\* delivered alert, a price alert fails for a key that never had one delivered
C28_Witness ==
    /\ script = "rwa" /\ bot /\ scans >= 2 /\ now < alert_cooldown
    /\ \E k \in Keys : /\ Has(log, "price_failed", k)
                       /\ k \notin DOMAIN chat
                       /\ k \notin DOMAIN consecutive_alerts

-----------------------------------------------------------------------------
(* C29, as claimed.  For every alert key in every screener the recorded        *)
(* last_alert timestamp never decreases over the life of the process: a step   *)
(* keeps every entry of last_alert and leaves it at its value or a later one,  *)
(* in price_screener_ws.py under every interleaving of the send_alert tasks,   *)
(* each of which reads the clock before it awaits the Telegram send and writes *)
(* last_alert after it.                                                        *)
C29_Original_LastAlertNeverDecreases ==
    [][\A k \in DOMAIN last_alert :
          k \in DOMAIN last_alert' /\ last_alert'[k] >= last_alert[k]
      ]_vars

-----------------------------------------------------------------------------
(* C30.  check_hyperliquid_market of price_screener_binance.py, for a symbol   *)
(* without a custom threshold: the sanity bound applies to the symbol as a     *)
(* whole.  When the absolute deviation of the bid or of the ask is above 30,   *)
(* the check returns no candidate for either side, also when the deviation of  *)
(* the other side lies between the threshold and 30; when neither is above 30, *)
(* each side at or above the threshold has its candidate.                      *)
C30_SanityBoundDropsBothSides ==
    (/\ probe.fn = "Binance.check_hyperliquid_market" /\ ProbeComputed
     /\ probe.symbol \notin DOMAIN CUSTOM_THRESHOLDS) =>
        IF ProbeDevA > SanityBound \/ ProbeDevB > SanityBound
        THEN probe.result = <<>>
        ELSE probe.result =
                (IF ProbeDevA >= Binance_deviation_threshold
                 THEN <<HL_BID(probe.symbol)>> ELSE <<>>)
                \o (IF ProbeDevB >= Binance_deviation_threshold
                    THEN <<HL_ASK(probe.symbol)>> ELSE <<>>)

\* the ask 45 % off, the bid 5 % off, above the threshold and under the bound:
\* no candidate for the bid either
C30_Witness ==
    /\ probe.fn = "Binance.check_hyperliquid_market" /\ ProbeComputed
    /\ probe.symbol \notin DOMAIN CUSTOM_THRESHOLDS
    /\ ProbeDevA = 500 /\ ProbeDevB = 4500
    /\ probe.result = <<>>

====
